---- MODULE Spec2Model ----
(***************************************************************************)
(* Complex-Fractal-Renderer: the cancellable multi-threaded render         *)
(* scheduler of FractalRenderer (beginAsyncRendering, its rendering task   *)
(* and its column workers), the handlers that dispatch jobs, and the       *)
(* iteration-budget policy calculateIterations.                            *)
(*                                                                         *)
(* Threads of the program and how they appear here:                        *)
(*   - the interaction (main) thread: mainpc, one action per statement     *)
(*     group of run / handleEvents / beginAsyncRendering / renderFrame /   *)
(*     ~FractalRenderer;                                                   *)
(*   - one rendering task per dispatched job (std::async): task[j].pc;     *)
(*   - NumThreads column workers per job (std::thread): workers[j][i].pc.  *)
(* Every job owns its own task and worker slots, so that two jobs running  *)
(* at once is a state the model can express: only the code's flag/wait     *)
(* protocol keeps it from being reached.                                   *)
(***************************************************************************)
EXTENDS Integers, Sequences, FiniteSets, TLC

\* ------------------------------------------------------------------ bounds

\* User intents handled after the initial dispatch of run().
MaxIntents == 1

\* Value returned by std::thread::hardware_concurrency() (>= 1 here).
NumThreads == 2

MaxJobs == MaxIntents + 1

\* User intents of a run that pans, zooms and resets the view.
ResetIntents == 2

Jobs == 1..(IF MaxIntents > ResetIntents THEN MaxJobs ELSE ResetIntents + 1)
Threads == 0..(NumThreads - 1)

\* Window sizes <<width, height>>: the initial one and the one a resize gives.
InitialWindow == <<2, 2>>
ResizedWindow == <<3, 2>>

\* Plane points a left click or the Go control can select (already inside
\* [MIN_REAL, MAX_REAL] x [MIN_IMAG, MAX_IMAG]); <<0, 0>> is the initial offset.
\* Coordinates are in units of 0.5.
ClickPoints == {<<2, 0>>}

\* Indices of fractalOptions and resolutionOptions that are selectable here.
FractalIndices == {0, 1}
ResolutionIndices == {0, 2}

\* Zoom steps n the Go control is used with (zoom power n * log10(2)).
GoZoomSteps == {-1, 1}

\* Values typed into the "Max Iterations" input before pressing Set.
IterationInputs == {0, 100, 20000}

\* ------------------------------------------------------- program constants

INITIAL_MAX_ITERATIONS == 5000
INITIAL_ITERATIONS == 96
ITERATION_INCREMENT == 40
MAX_ITERATIONS_LIMIT == 10000

\* MIN_REAL = MIN_IMAG = -2.5 and MAX_REAL = MAX_IMAG = 2.5, in units of 0.5.
MIN_PLANE == -5
MAX_PLANE == 5

\* ------------------------------------------- 32-bit unsigned arithmetic
\* An unsigned int is a pair <<hi, lo>> of 16-bit limbs, value hi * 2^16 + lo.

Limb == 65536

U32Of(n) == <<(n \div Limb) % Limb, n % Limb>>

\* (x * y) mod 2^16, without an intermediate above 2^31.
MulMod16(x, y) == ((((x \div 256) * y) % Limb) * 256 + (x % 256) * y) % Limb

U32Add(a, b) ==
    LET lo == a[2] + b[2]
    IN  <<(a[1] + b[1] + (lo \div Limb)) % Limb, lo % Limb>>

\* a * b mod 2^32.
U32Mul(a, b) ==
    LET q    == (a[2] \div 256) * b[2]
        low  == (q % 256) * 256 + (a[2] % 256) * b[2]
        cary == (q \div 256) + (low \div Limb)
    IN  <<(cary + MulMod16(a[1], b[2]) + MulMod16(a[2], b[1])) % Limb, low % Limb>>

U32Less(a, b) == a[1] < b[1] \/ (a[1] = b[1] /\ a[2] < b[2])

\* std::clamp<unsigned int>(v, lo, hi): comp(v, lo) ? lo : comp(hi, v) ? hi : v
U32Clamp(v, lo, hi) == IF U32Less(v, lo) THEN lo ELSE IF U32Less(hi, v) THEN hi ELSE v

\* Conversion of an unsigned int to the int the function returns (two's
\* complement: values above INT_MAX come out negative).
U32ToInt(u) == IF u[1] >= 32768 THEN (u[1] - Limb) * Limb + u[2] ELSE u[1] * Limb + u[2]

\* int calculateIterations(unsigned numZooms, unsigned initialIterations,
\*                         unsigned iterationIncrement, unsigned maxIterations)
calculateIterations(nz, initial, increment, cap) ==
    U32ToInt(U32Clamp(U32Add(U32Mul(nz, increment), initial), U32Of(1), cap))

\* ---------------------------------------------------------- render geometry

\* (int)(winLength * lengthScaleFactor) for resolutionOptions[idx]: the factor
\* is 1.0f, sqrt(0.5f), 0.5f, sqrt(0.125f), 0.25f for idx = 0..4, here as a
\* fraction of 10000.
LengthScaleFactor(idx) ==
    CASE idx = 0 -> 10000
      [] idx = 1 -> 7071
      [] idx = 2 -> 5000
      [] idx = 3 -> 3535
      [] idx = 4 -> 2500

\* Indices of resolutionOptions (five entries).
ResolutionOptionIndices == 0..4

\* Scale factors a read beyond the end of resolutionOptions may yield.
OutOfRangeScaleFactors == {5000, 10000}

\* resolutionOptions[idx].lengthScaleFactor as read at line 782: the entry's
\* value, or whatever lies behind the vector when idx is out of range.
ScaleFactorsRead(idx) ==
    IF idx \in ResolutionOptionIndices THEN {LengthScaleFactor(idx)}
    ELSE OutOfRangeScaleFactors

\* (int)(winLength * lengthScaleFactor)
ScaledLength(winLength, sf) == (winLength * sf) \div 10000

RenderLength(winLength, idx) == ScaledLength(winLength, LengthScaleFactor(idx))

\* Column range [StartX, EndX) of worker i among n workers of a job of width w.
SectionWidth(w, n) == w \div n
\* Variant: every worker starts at column 0.
StartXZero(i, w, n) == 0

StartX(i, w, n) == i * SectionWidth(w, n)
\* Variant: the last worker does not take the remainder columns.
EndXNoRemainder(i, w, n) == (i + 1) * SectionWidth(w, n)

EndX(i, w, n) == IF i = n - 1 THEN w ELSE (i + 1) * SectionWidth(w, n)

\* ------------------------------------------------------------------- state

VARIABLES
    mainpc,                 \* position of the interaction thread
    fullRender,             \* argument of the beginAsyncRendering call in progress
    intents,                \* user intents handled so far
    intentLimit,            \* user intents this run handles at most
    winWidth, winHeight,    \* window size (half sizes and plane ratios derive from it and the zoom)
    numZooms,               \* zoom steps; zoom = 2^numZooms
    offsetX, offsetY,       \* pan offset
    maxIterations,          \* user-settable cap
    curMaxIterations,       \* budget of the job in flight (written by the task)
    curFractalIdx,
    curResolutionIdx,
    isRecalculatingFractal, \* std::atomic<bool>
    cancelRender,           \* std::atomic<bool>
    renderingTask,          \* std::future<void>: the job it refers to, 0 when not valid
    renderMutex,            \* 0 when free, else the job whose task holds it
    pixelDataBuffer,        \* sequence of pixels, slot y * renderWidth + x at index slot + 1
    renderProgress,         \* std::atomic<unsigned int>
    renderMaxProgress,
    fractalTexture,         \* displayed texture, 0 for nullptr
    fractalTextureBuffer,   \* scratch texture, 0 for nullptr
    textures,               \* SDL textures by id: the texture created at dispatch j has id j
    numJobs,                \* jobs dispatched so far
    task,                   \* per job: the rendering task's position and captured values
    workers,                \* per job and worker: position, column, row and computed colour
    cancelAt,               \* history: per job, where its task stood when cancelRender was set for it
    swapped,                \* history: jobs that swapped their texture in
    displayedBy,            \* history: job that made the last swap
    ciArgs, ciResult,       \* inputs and result of a calculateIterations call
    callArgs, callResult,   \* inputs and result of a call of another pure function
    lastIntent,             \* history: the last user intent handled
    rightClick,             \* history: the last right click: was a job in flight, was an overlay drawn
    failed,                 \* history: jobs whose task returned on a resource failure
    trajectoryTexture,      \* overlay texture: -1 for nullptr, else the fractal it was computed for
    destroyTrajectory,      \* bool: the overlay is to be destroyed by run()
    phase,                  \* where run()'s loop stands: "events", "frame" or "ui"
    frameOverlay,           \* overlay copied into the frame being composed, -1 for none
    shown                   \* history: overlay of the last presented frame and the fractal active then

vars == <<mainpc, fullRender, intents, intentLimit, winWidth, winHeight, numZooms, offsetX, offsetY,
          maxIterations, curMaxIterations, curFractalIdx, curResolutionIdx,
          isRecalculatingFractal, cancelRender, renderingTask, renderMutex,
          pixelDataBuffer, renderProgress, renderMaxProgress, fractalTexture,
          fractalTextureBuffer, textures, numJobs, task, workers, cancelAt, swapped,
          displayedBy, ciArgs, ciResult, callArgs, callResult, lastIntent, rightClick, failed,
          trajectoryTexture, destroyTrajectory, phase, frameOverlay, shown>>

viewVars == <<winWidth, winHeight, numZooms, offsetX, offsetY, maxIterations,
              curFractalIdx, curResolutionIdx>>
calcVars == <<ciArgs, ciResult, callArgs, callResult>>
ghostVars == <<lastIntent, rightClick, failed>>
overlayVars == <<trajectoryTexture, destroyTrajectory, phase, frameOverlay, shown>>
histVars == <<cancelAt, swapped, displayedBy>>
textureVars == <<fractalTexture, fractalTextureBuffer, textures>>
jobVars == <<numJobs, task, workers>>

\* What a worker reads from the live renderer object at line 828-829:
\* halfWinWidth/halfWinHeight (from the window size), the plane ratios (from
\* window size and zoom), the pan offset and curMaxIterations.
LiveView == <<winWidth, winHeight, numZooms, offsetX, offsetY, curMaxIterations>>

\* A pixel: the colour is a function of the captured fractal function and scale
\* factor, of the render coordinates <<x, y>> and of the live values read; job
\* records which job's worker wrote it.
ZeroPixel == [job |-> 0, func |-> 0, res |-> 0, view |-> <<>>, at |-> <<>>]

NoTask == [pc |-> "none", fullRender |-> FALSE, func |-> 0, res |-> 0,
           renderWidth |-> 0, renderHeight |-> 0]
NoWorker == [pc |-> "none", x |-> 0, y |-> 0, col |-> ZeroPixel]
NoTexture == [state |-> "none", data |-> <<>>]
NoFrame == [overlay |-> -1, func |-> 0]
NoClick == [inFlight |-> FALSE, drawn |-> FALSE]

\* The renderer after construction (lines 429-522).
Constructed ==
    /\ mainpc = "run"
    /\ fullRender = FALSE
    /\ intents = 0
    /\ winWidth = InitialWindow[1]
    /\ winHeight = InitialWindow[2]
    /\ numZooms = 0
    /\ offsetX = 0
    /\ offsetY = 0
    /\ maxIterations = INITIAL_MAX_ITERATIONS
    /\ curMaxIterations = 0
    /\ curFractalIdx = 0
    /\ curResolutionIdx = 0
    /\ isRecalculatingFractal = FALSE
    /\ cancelRender = FALSE
    /\ renderingTask = 0
    /\ renderMutex = 0
    /\ pixelDataBuffer = <<>>
    /\ renderProgress = 0
    /\ renderMaxProgress = 0
    /\ fractalTexture = 0
    /\ fractalTextureBuffer = 0
    /\ textures = [t \in Jobs |-> NoTexture]
    /\ numJobs = 0
    /\ task = [j \in Jobs |-> NoTask]
    /\ workers = [j \in Jobs |-> [i \in Threads |-> NoWorker]]
    /\ cancelAt = [j \in Jobs |-> "never"]
    /\ swapped = {}
    /\ displayedBy = 0
    /\ lastIntent = "none"
    /\ rightClick = NoClick
    /\ failed = {}
    /\ trajectoryTexture = -1
    /\ destroyTrajectory = FALSE
    /\ phase = "events"
    /\ frameOverlay = -1
    /\ shown = NoFrame

RendererInit ==
    /\ Constructed
    /\ intentLimit = MaxIntents

NoCall ==
    /\ ciArgs = <<>>
    /\ ciResult = <<>>
    /\ callArgs = <<>>
    /\ callResult = <<>>

Init ==
    /\ RendererInit
    /\ NoCall

\* ------------------------------------------- beginAsyncRendering (main thread)

\* A handler's call beginAsyncRendering(full).
Dispatch(full) ==
    /\ mainpc' = "b_check"
    /\ fullRender' = full

\* std::future::wait() on renderingTask, and the release of the old shared
\* state when renderingTask is assigned: both block until that task has ended.
\* Variant: the caller does not wait for the task.
TaskEndedNoWait(f) == TRUE

TaskEnded(f) == IF f = 0 THEN TRUE ELSE task[f].pc = "done"

\* Lines 771-772: if (isRecalculatingFractal) cancelRender = true;
BeginCheck ==
    /\ mainpc = "b_check"
    /\ IF isRecalculatingFractal
       THEN /\ cancelRender' = TRUE
            /\ cancelAt' = IF numJobs = 0 THEN cancelAt
                           ELSE [cancelAt EXCEPT ![numJobs] = task[numJobs].pc]
            /\ mainpc' = "b_wait"
       ELSE /\ mainpc' = "b_setup"
            /\ UNCHANGED <<cancelRender, cancelAt>>
    /\ UNCHANGED <<fullRender, intents, intentLimit, viewVars, curMaxIterations, isRecalculatingFractal,
                   renderingTask, renderMutex, pixelDataBuffer, renderProgress,
                   renderMaxProgress, textureVars, jobVars, swapped, displayedBy, calcVars, ghostVars, overlayVars>>

\* Lines 773-774: if (renderingTask.valid()) renderingTask.wait();
BeginWait ==
    /\ mainpc = "b_wait"
    /\ TaskEnded(renderingTask)
    /\ mainpc' = "b_reset"
    /\ UNCHANGED <<fullRender, intents, intentLimit, viewVars, curMaxIterations, isRecalculatingFractal,
                   cancelRender, renderingTask, renderMutex, pixelDataBuffer, renderProgress,
                   renderMaxProgress, textureVars, jobVars, histVars, calcVars, ghostVars, overlayVars>>

\* Line 776: cancelRender = false;
BeginReset ==
    /\ mainpc = "b_reset"
    /\ cancelRender' = FALSE
    /\ mainpc' = "b_setup"
    /\ UNCHANGED <<fullRender, intents, intentLimit, viewVars, curMaxIterations, isRecalculatingFractal,
                   renderingTask, renderMutex, pixelDataBuffer, renderProgress,
                   renderMaxProgress, textureVars, jobVars, histVars, calcVars, ghostVars, overlayVars>>

\* SDL_DestroyTexture on a non-null pointer; the call on a texture that was
\* destroyed before is recorded in the texture's state.
Destroyed(texs, t) ==
    IF t = 0 THEN texs
    ELSE [texs EXCEPT ![t] = [state |-> IF texs[t].state = "live" THEN "destroyed"
                                        ELSE "destroyedAgain",
                              data |-> <<>>]]

\* Lines 532-535: SDL_DestroyRenderer destroys the renderer together with
\* every texture created for it that still exists.
RendererDestroyed(texs) ==
    [t \in DOMAIN texs |-> IF texs[t].state = "live"
                           THEN [state |-> "destroyed", data |-> <<>>]
                           ELSE texs[t]]

\* Line 786: pixelDataBuffer.resize(n, 0): the first slots keep their content, new ones are 0.
Resized(buf, n) == [s \in 1..n |-> IF s <= Len(buf) THEN buf[s] ELSE ZeroPixel]

\* Lines 779-803: flag, render size, buffer, progress, scratch texture, and the
\* launch of the task with its captured values.
BeginSetup ==
    /\ mainpc = "b_setup"
    /\ numJobs < intentLimit + 1
    /\ \E sf \in ScaleFactorsRead(curResolutionIdx) :
       LET j == numJobs + 1
           w == ScaledLength(winWidth, sf)
           h == ScaledLength(winHeight, sf)
           destroyed == Destroyed(textures, fractalTextureBuffer)
       IN  /\ isRecalculatingFractal' = TRUE
           /\ pixelDataBuffer' = Resized(pixelDataBuffer, w * h)
           /\ renderProgress' = 0
           /\ renderMaxProgress' = w
           /\ textures' = [destroyed EXCEPT ![j] = [state |-> "live", data |-> <<>>]]
           /\ fractalTextureBuffer' = j
           /\ task' = [task EXCEPT ![j] =
                          [pc |-> "start", fullRender |-> fullRender, func |-> curFractalIdx,
                           res |-> curResolutionIdx, renderWidth |-> w, renderHeight |-> h]]
           /\ numJobs' = j
    /\ mainpc' = "b_assign"
    /\ UNCHANGED <<fullRender, intents, intentLimit, viewVars, curMaxIterations, cancelRender,
                   renderingTask, renderMutex, fractalTexture, workers, histVars, calcVars, ghostVars, overlayVars>>

\* Line 803: renderingTask = std::async(...): the new future replaces the old one.
BeginAssign ==
    /\ mainpc = "b_assign"
    /\ TaskEnded(renderingTask)
    /\ renderingTask' = numJobs
    /\ mainpc' = "idle"
    /\ UNCHANGED <<fullRender, intents, intentLimit, viewVars, curMaxIterations, isRecalculatingFractal,
                   cancelRender, renderMutex, pixelDataBuffer, renderProgress,
                   renderMaxProgress, textureVars, jobVars, histVars, calcVars, ghostVars, overlayVars>>

\* ------------------------------------------------------- the rendering task

SetTaskPc(j, pc) == task' = [task EXCEPT ![j].pc = pc]

\* The task's return destroys its vector of (joined) std::thread objects.
EndedWorker == [pc |-> "done", x |-> 0, y |-> 0, col |-> ZeroPixel]
ThreadsDestroyed(j) == workers' = [workers EXCEPT ![j] = [i \in Threads |-> EndedWorker]]

\* First position of a worker of job j: its first column, or done when its
\* column range is empty.
WorkerAt(x, endX, h) ==
    [pc |-> IF x >= endX THEN "done" ELSE IF h = 0 THEN "incr" ELSE "check",
     x |-> x, y |-> 0, col |-> ZeroPixel]

\* Lines 804-839: thread count, section width, curMaxIterations, and one
\* std::thread per vertical slice.
TaskStart(j) ==
    /\ task[j].pc = "start"
    /\ curMaxIterations' =
          IF task[j].fullRender THEN maxIterations
          ELSE calculateIterations(U32Of(numZooms), U32Of(INITIAL_ITERATIONS),
                                   U32Of(ITERATION_INCREMENT), U32Of(maxIterations))
    /\ workers' = [workers EXCEPT ![j] =
          [i \in Threads |->
              WorkerAt(StartX(i, task[j].renderWidth, NumThreads),
                       EndX(i, task[j].renderWidth, NumThreads),
                       task[j].renderHeight)]]
    /\ SetTaskPc(j, "join")
    /\ UNCHANGED <<mainpc, fullRender, intents, intentLimit, viewVars, isRecalculatingFractal, cancelRender,
                   renderingTask, renderMutex, pixelDataBuffer, renderProgress,
                   renderMaxProgress, textureVars, numJobs, histVars, calcVars, ghostVars, overlayVars>>

\* Lines 842-846: join every worker.
TaskJoin(j) ==
    /\ task[j].pc = "join"
    /\ \A i \in Threads : workers[j][i].pc = "done"
    /\ SetTaskPc(j, "check")
    /\ UNCHANGED <<mainpc, fullRender, intents, intentLimit, viewVars, curMaxIterations,
                   isRecalculatingFractal, cancelRender, renderingTask, renderMutex,
                   pixelDataBuffer, renderProgress, renderMaxProgress, textureVars,
                   numJobs, workers, histVars, calcVars, ghostVars, overlayVars>>

\* Variant: the task does not test the flag after joining.
TaskIgnoresCancel == FALSE

\* The task's read of the flag at line 848.
TaskSeesCancel == cancelRender

\* Lines 848-849: if (cancelRender) return;
TaskCheck(j) ==
    /\ task[j].pc = "check"
    /\ IF TaskSeesCancel
       THEN SetTaskPc(j, "done") /\ ThreadsDestroyed(j)
       ELSE SetTaskPc(j, "lock") /\ UNCHANGED workers
    /\ UNCHANGED <<mainpc, fullRender, intents, intentLimit, viewVars, curMaxIterations,
                   isRecalculatingFractal, cancelRender, renderingTask, renderMutex,
                   pixelDataBuffer, renderProgress, renderMaxProgress, textureVars,
                   numJobs, histVars, calcVars, ghostVars, overlayVars>>

\* Line 853: std::lock_guard<std::mutex> lock(renderMutex);
TaskLock(j) ==
    /\ task[j].pc = "lock"
    /\ renderMutex = 0
    /\ renderMutex' = j
    /\ SetTaskPc(j, "copy")
    /\ UNCHANGED <<mainpc, fullRender, intents, intentLimit, viewVars, curMaxIterations,
                   isRecalculatingFractal, cancelRender, renderingTask,
                   pixelDataBuffer, renderProgress, renderMaxProgress, textureVars,
                   numJobs, workers, histVars, calcVars, ghostVars, overlayVars>>

\* Lines 858-865: SDL_LockTexture, memcpy of the whole buffer, SDL_UnlockTexture.
TaskCopy(j) ==
    /\ task[j].pc = "copy"
    /\ fractalTextureBuffer # 0
    /\ textures' = [textures EXCEPT ![fractalTextureBuffer].data = pixelDataBuffer]
    /\ SetTaskPc(j, "swap")
    /\ UNCHANGED <<mainpc, fullRender, intents, intentLimit, viewVars, curMaxIterations,
                   isRecalculatingFractal, cancelRender, renderingTask, renderMutex,
                   pixelDataBuffer, renderProgress, renderMaxProgress, fractalTexture,
                   fractalTextureBuffer, numJobs, workers, histVars, calcVars, ghostVars, overlayVars>>

\* Line 867: std::swap(fractalTexture, fractalTextureBuffer);
TaskSwap(j) ==
    /\ task[j].pc = "swap"
    /\ fractalTexture' = fractalTextureBuffer
    /\ fractalTextureBuffer' = fractalTexture
    /\ swapped' = swapped \cup {j}
    /\ displayedBy' = j
    /\ SetTaskPc(j, "unlock")
    /\ UNCHANGED <<mainpc, fullRender, intents, intentLimit, viewVars, curMaxIterations,
                   isRecalculatingFractal, cancelRender, renderingTask, renderMutex,
                   pixelDataBuffer, renderProgress, renderMaxProgress, textures,
                   numJobs, workers, cancelAt, calcVars, ghostVars, overlayVars>>

\* Line 868: end of the lock_guard's scope.
TaskUnlock(j) ==
    /\ task[j].pc = "unlock"
    /\ renderMutex' = 0
    /\ SetTaskPc(j, "flag")
    /\ UNCHANGED <<mainpc, fullRender, intents, intentLimit, viewVars, curMaxIterations,
                   isRecalculatingFractal, cancelRender, renderingTask,
                   pixelDataBuffer, renderProgress, renderMaxProgress, textureVars,
                   numJobs, workers, histVars, calcVars, ghostVars, overlayVars>>

\* Line 870: isRecalculatingFractal = false; the task then ends.
TaskFinish(j) ==
    /\ task[j].pc = "flag"
    /\ isRecalculatingFractal' = FALSE
    /\ SetTaskPc(j, "done")
    /\ ThreadsDestroyed(j)
    /\ UNCHANGED <<mainpc, fullRender, intents, intentLimit, viewVars, curMaxIterations,
                   cancelRender, renderingTask, renderMutex,
                   pixelDataBuffer, renderProgress, renderMaxProgress, textureVars,
                   numJobs, histVars, calcVars, ghostVars, overlayVars>>

\* ------------------------------------------------------------- the workers

SetWorker(j, i, w) == workers' = [workers EXCEPT ![j][i] = w]

WorkerUnchanged ==
    UNCHANGED <<mainpc, fullRender, intents, intentLimit, viewVars, curMaxIterations,
                isRecalculatingFractal, cancelRender, renderingTask, renderMutex,
                textureVars, numJobs, task, histVars, calcVars, ghostVars, overlayVars>>

\* Variant: the workers do not poll the flag.
WorkerIgnoresCancel == FALSE

\* A worker's read of the flag at line 825.
WorkerSeesCancel == cancelRender

\* Lines 825-829: if (cancelRender) return; otherwise screenToFractal on the
\* renderer's live members and the captured fractal function with the live
\* curMaxIterations.
WorkerPixel(j, i) ==
    /\ workers[j][i].pc = "check"
    /\ SetWorker(j, i,
          IF WorkerSeesCancel
          THEN [workers[j][i] EXCEPT !.pc = "done"]
          ELSE [workers[j][i] EXCEPT
                   !.pc = "write",
                   !.col = [job |-> j, func |-> task[j].func, res |-> task[j].res,
                            view |-> LiveView, at |-> <<workers[j][i].x, workers[j][i].y>>]])
    /\ UNCHANGED <<pixelDataBuffer, renderProgress, renderMaxProgress>>
    /\ WorkerUnchanged

\* Lines 831-834: under renderMutex, pixelDataBuffer[y * renderWidth + x] = colour;
\* then the next row, or the end of the column.
WorkerWrite(j, i) ==
    LET w == workers[j][i]
        slot == w.y * task[j].renderWidth + w.x
    IN  /\ w.pc = "write"
        /\ renderMutex = 0
        /\ pixelDataBuffer' = IF slot + 1 \in DOMAIN pixelDataBuffer
                              THEN [pixelDataBuffer EXCEPT ![slot + 1] = w.col]
                              ELSE pixelDataBuffer
        /\ SetWorker(j, i, IF w.y + 1 < task[j].renderHeight
                           THEN [w EXCEPT !.pc = "check", !.y = w.y + 1, !.col = ZeroPixel]
                           ELSE [w EXCEPT !.pc = "incr", !.col = ZeroPixel])
        /\ UNCHANGED <<renderProgress, renderMaxProgress>>
        /\ WorkerUnchanged

\* Line 836: renderProgress++; then the next column, or the end of the range.
WorkerIncr(j, i) ==
    LET w == workers[j][i]
    IN  /\ w.pc = "incr"
        /\ renderProgress' = renderProgress + 1
        /\ SetWorker(j, i, WorkerAt(w.x + 1, EndX(i, task[j].renderWidth, NumThreads),
                                   task[j].renderHeight))
        /\ UNCHANGED <<pixelDataBuffer, renderMaxProgress>>
        /\ WorkerUnchanged

\* ------------------------------------------------- handlers (main thread)

\* One event of handleEvents, or one control of the UI drawn by renderFrame,
\* handled while the interaction thread is in its loop.
Handler ==
    /\ mainpc = "idle"
    /\ phase \in {"events", "ui"}
    /\ intents < intentLimit
    /\ intents' = intents + 1
    /\ UNCHANGED <<intentLimit, curMaxIterations, isRecalculatingFractal, cancelRender, renderingTask,
                   renderMutex, pixelDataBuffer, renderProgress, renderMaxProgress,
                   textureVars, jobVars, histVars, calcVars, rightClick, failed, trajectoryTexture,
                   phase, frameOverlay, shown>>

NoDispatch == UNCHANGED <<mainpc, fullRender>>

Clamp(v, lo, hi) == IF v < lo THEN lo ELSE IF v > hi THEN hi ELSE v

\* setFractalOffset: the offset clamped to the allowed plane region.
setFractalOffset(re, im) ==
    /\ offsetX' = Clamp(re, MIN_PLANE, MAX_PLANE)
    /\ offsetY' = Clamp(im, MIN_PLANE, MAX_PLANE)

\* setZoomLevel for the power of ten that equals 2^n: zoom, numZooms and the
\* plane size derived from them.
setZoomLevel(n) ==
    numZooms' = IF n < 0 THEN numZooms ELSE n

\* Line 1106: run() dispatches the first job.
RunStart ==
    /\ mainpc = "run"
    /\ Dispatch(FALSE)
    /\ UNCHANGED <<intents, intentLimit, viewVars, curMaxIterations, isRecalculatingFractal, cancelRender,
                   renderingTask, renderMutex, pixelDataBuffer, renderProgress,
                   renderMaxProgress, textureVars, jobVars, histVars, calcVars, ghostVars, overlayVars>>

\* Lines 584-592: left click pans to the clicked point.
LeftClick(c) ==
    /\ Handler
    /\ lastIntent' = "LeftClick"
    /\ setFractalOffset(c[1], c[2])
    /\ destroyTrajectory' = TRUE
    /\ Dispatch(FALSE)
    /\ UNCHANGED <<winWidth, winHeight, numZooms, maxIterations, curFractalIdx, curResolutionIdx>>

\* Lines 608-623: the wheel doubles or halves the zoom; below zoom 1 nothing happens.
Wheel(up) ==
    /\ Handler
    /\ LET n == IF up THEN numZooms + 1 ELSE numZooms - 1
       IN  IF n < 0
           THEN /\ lastIntent' = "WheelBelowMinimum"
                /\ NoDispatch
                /\ UNCHANGED <<numZooms, destroyTrajectory>>
           ELSE /\ lastIntent' = "Wheel"
                /\ setZoomLevel(n)
                /\ destroyTrajectory' = TRUE
                /\ Dispatch(FALSE)
    /\ UNCHANGED <<winWidth, winHeight, offsetX, offsetY, maxIterations, curFractalIdx,
                   curResolutionIdx>>

\* Lines 637-640 and 1020-1021: the F key and the Full Render button.
FullRenderRequest ==
    /\ Handler
    /\ lastIntent' = "FullRender"
    /\ UNCHANGED destroyTrajectory
    /\ Dispatch(TRUE)
    /\ UNCHANGED viewVars

\* Variant: resetToInitialFractal without the early return of lines 718-719.
resetToInitialFractalAlways ==
    /\ Handler
    /\ lastIntent' = "Reset"
    /\ numZooms' = 0
    /\ destroyTrajectory' = TRUE
    /\ offsetX' = 0
    /\ offsetY' = 0
    /\ Dispatch(FALSE)
    /\ UNCHANGED <<winWidth, winHeight, maxIterations, curFractalIdx, curResolutionIdx>>

\* Lines 717-730: resetToInitialFractal (R key, Reset button).
resetToInitialFractal ==
    /\ Handler
    /\ lastIntent' = "Reset"
    /\ IF numZooms = 0 /\ offsetX = 0 /\ offsetY = 0
       THEN NoDispatch /\ UNCHANGED <<numZooms, offsetX, offsetY, destroyTrajectory>>
       ELSE /\ numZooms' = 0
            /\ destroyTrajectory' = TRUE
            /\ offsetX' = 0
            /\ offsetY' = 0
            /\ Dispatch(FALSE)
    /\ UNCHANGED <<winWidth, winHeight, maxIterations, curFractalIdx, curResolutionIdx>>

\* Lines 989-998: the Go button with a zoom power other than 1.
GoTo(n, c) ==
    /\ Handler
    /\ lastIntent' = IF n < 0 THEN "GoBelowMinimum" ELSE "Go"
    /\ setFractalOffset(c[1], c[2])
    /\ destroyTrajectory' = TRUE
    /\ setZoomLevel(n)
    /\ Dispatch(FALSE)
    /\ UNCHANGED <<winWidth, winHeight, maxIterations, curFractalIdx, curResolutionIdx>>

\* Variant: selectFractal leaves destroyTrajectory alone.
selectFractalKeepsOverlay(idx) ==
    /\ Handler
    /\ lastIntent' = IF phase = "ui" THEN "SelectFractalCombo" ELSE "SelectFractalKey"
    /\ IF idx = curFractalIdx
       THEN NoDispatch /\ UNCHANGED curFractalIdx
       ELSE curFractalIdx' = idx /\ Dispatch(FALSE)
    /\ UNCHANGED <<winWidth, winHeight, numZooms, offsetX, offsetY, maxIterations,
                   curResolutionIdx, destroyTrajectory>>

\* Variant: selectFractal changes the index and dispatches nothing.
selectFractalNoDispatch(idx) ==
    /\ Handler
    /\ lastIntent' = IF phase = "ui" THEN "SelectFractalCombo" ELSE "SelectFractalKey"
    /\ destroyTrajectory' = TRUE
    /\ curFractalIdx' = idx
    /\ NoDispatch
    /\ UNCHANGED <<winWidth, winHeight, numZooms, offsetX, offsetY, maxIterations,
                   curResolutionIdx>>

\* Lines 760-768: selectFractal (keys 1-4, selector combo).
selectFractal(idx) ==
    /\ Handler
    /\ lastIntent' = IF phase = "ui" THEN "SelectFractalCombo" ELSE "SelectFractalKey"
    /\ IF idx = curFractalIdx
       THEN NoDispatch /\ UNCHANGED <<curFractalIdx, destroyTrajectory>>
       ELSE /\ curFractalIdx' = idx
            /\ destroyTrajectory' = TRUE
            /\ Dispatch(FALSE)
    /\ UNCHANGED <<winWidth, winHeight, numZooms, offsetX, offsetY, maxIterations,
                   curResolutionIdx>>

\* Lines 752-758: selectResolution (resolution combo).
selectResolution(idx) ==
    /\ Handler
    /\ lastIntent' = "SelectResolution"
    /\ UNCHANGED destroyTrajectory
    /\ IF idx = curResolutionIdx
       THEN NoDispatch /\ UNCHANGED curResolutionIdx
       ELSE curResolutionIdx' = idx /\ Dispatch(FALSE)
    /\ UNCHANGED <<winWidth, winHeight, numZooms, offsetX, offsetY, maxIterations,
                   curFractalIdx>>

\* Lines 680-699: setWindowSize on a window event.
setWindowSize(width, height) ==
    /\ Handler
    /\ lastIntent' = "Resize"
    /\ IF width = winWidth /\ height = winHeight
       THEN NoDispatch /\ UNCHANGED <<winWidth, winHeight, destroyTrajectory>>
       ELSE /\ winWidth' = width
            /\ destroyTrajectory' = TRUE
            /\ winHeight' = height
            /\ Dispatch(FALSE)
    /\ UNCHANGED <<numZooms, offsetX, offsetY, maxIterations, curFractalIdx, curResolutionIdx>>

\* Variant: the Set button stores the input without the upper limit.
SetMaxIterationsNoClamp(input) ==
    /\ Handler
    /\ lastIntent' = "SetMaxIterations"
    /\ UNCHANGED destroyTrajectory
    /\ IF input > 0
       THEN maxIterations' = input /\ Dispatch(FALSE)
       ELSE NoDispatch /\ UNCHANGED maxIterations
    /\ UNCHANGED <<winWidth, winHeight, numZooms, offsetX, offsetY, curFractalIdx,
                   curResolutionIdx>>

\* Lines 1014-1017: the Set button of the Max Iterations input.
SetMaxIterations(input) ==
    /\ Handler
    /\ lastIntent' = "SetMaxIterations"
    /\ UNCHANGED destroyTrajectory
    /\ IF input > 0
       THEN /\ maxIterations' = IF input < MAX_ITERATIONS_LIMIT THEN input
                                ELSE MAX_ITERATIONS_LIMIT
            /\ Dispatch(FALSE)
       ELSE NoDispatch /\ UNCHANGED maxIterations
    /\ UNCHANGED <<winWidth, winHeight, numZooms, offsetX, offsetY, curFractalIdx,
                   curResolutionIdx>>

\* Lines 575-578 and 629-632: quit; run() returns and the destructor starts.
Quit ==
    /\ Handler
    /\ lastIntent' = "Quit"
    /\ UNCHANGED destroyTrajectory
    /\ mainpc' = "dtor_wait"
    /\ UNCHANGED <<fullRender, viewVars>>

MainOnly ==
    UNCHANGED <<fullRender, intents, intentLimit, viewVars, curMaxIterations, isRecalculatingFractal,
                cancelRender, renderingTask, renderMutex, pixelDataBuffer, renderProgress,
                renderMaxProgress, textureVars, jobVars, histVars, calcVars, ghostVars, overlayVars>>

\* Lines 524-560: the destructor waits for renderingTask, destroys the
\* renderer, then destroys both textures and clears the pixel buffer.
DestructorWait ==
    /\ mainpc = "dtor_wait"
    /\ TaskEnded(renderingTask)
    /\ textures' = Destroyed(Destroyed(RendererDestroyed(textures), fractalTexture),
                             fractalTextureBuffer)
    /\ fractalTexture' = 0
    /\ fractalTextureBuffer' = 0
    /\ pixelDataBuffer' = <<>>
    /\ mainpc' = "exited"
    /\ UNCHANGED <<fullRender, intents, intentLimit, viewVars, curMaxIterations, isRecalculatingFractal,
                   cancelRender, renderingTask, renderMutex, renderProgress,
                   renderMaxProgress, jobVars, histVars, calcVars, ghostVars, overlayVars>>

\* Line 1081: renderFrame tests fractalTexture ...
RenderFrameTest ==
    /\ mainpc = "idle"
    /\ fractalTexture # 0
    /\ mainpc' = "rf_copy"
    /\ MainOnly

\* Line 1082: ... and hands it to SDL_RenderCopy.
RenderFrameCopy ==
    /\ mainpc = "rf_copy"
    /\ mainpc' = "idle"
    /\ MainOnly

\* Lines 645-650: the S key at full resolution ...
SaveRequest ==
    /\ Handler
    /\ lastIntent' = "Save"
    /\ UNCHANGED destroyTrajectory
    /\ IF curResolutionIdx = 0 THEN mainpc' = "save" ELSE UNCHANGED mainpc
    /\ UNCHANGED <<fullRender, viewVars>>

\* Line 651: ... passes fractalTexture to saveTextureAsPNG.
SaveTexture ==
    /\ mainpc = "save"
    /\ mainpc' = "idle"
    /\ MainOnly

\* ---------------------------------------------------------- specification

UserIntent ==
    \/ \E c \in ClickPoints : LeftClick(c)
    \/ \E up \in BOOLEAN : Wheel(up)
    \/ FullRenderRequest
    \/ resetToInitialFractal
    \/ \E n \in GoZoomSteps : \E c \in ClickPoints : GoTo(n, c)
    \/ \E idx \in FractalIndices : selectFractal(idx)
    \/ \E idx \in ResolutionIndices : selectResolution(idx)
    \/ \E sz \in {InitialWindow, ResizedWindow} : setWindowSize(sz[1], sz[2])
    \/ \E input \in IterationInputs : SetMaxIterations(input)
    \/ SaveRequest
    \/ Quit

MainStep ==
    \/ RunStart
    \/ BeginCheck
    \/ BeginWait
    \/ BeginReset
    \/ BeginSetup
    \/ BeginAssign
    \/ DestructorWait
    \/ RenderFrameTest
    \/ RenderFrameCopy
    \/ SaveTexture

TaskStep(j) ==
    \/ TaskStart(j)
    \/ TaskJoin(j)
    \/ TaskCheck(j)
    \/ TaskLock(j)
    \/ TaskCopy(j)
    \/ TaskSwap(j)
    \/ TaskUnlock(j)
    \/ TaskFinish(j)

WorkerStep(j, i) ==
    \/ WorkerPixel(j, i)
    \/ WorkerWrite(j, i)
    \/ WorkerIncr(j, i)

Next ==
    \/ UserIntent
    \/ MainStep
    \/ \E j \in Jobs : TaskStep(j)
    \/ \E j \in Jobs : \E i \in Threads : WorkerStep(j, i)

Spec == Init /\ [][Next]_vars

\* Every thread that can run keeps running: the interaction thread inside a
\* call, each rendering task and each worker. User intents are not forced.
Fairness ==
    /\ WF_vars(MainStep)
    /\ \A j \in Jobs : WF_vars(TaskStep(j))
    /\ \A j \in Jobs : \A i \in Threads : WF_vars(WorkerStep(j, i))

FairSpec == Spec /\ Fairness

\* ------------------------------------- calculateIterations on its own inputs

\* unsigned int arguments around the limits of the type.
U32Samples == {<<0, 0>>, <<0, 1>>, <<0, 40>>, <<0, 96>>, <<0, 10000>>,
               <<32767, 65535>>, <<32768, 0>>, <<65535, 65535>>}

CalcInit ==
    /\ RendererInit
    /\ ciArgs \in {a \in U32Samples \X U32Samples \X U32Samples \X U32Samples :
                      a[4] # <<0, 0>>}
    /\ ciResult = <<>>
    /\ callArgs = <<>>
    /\ callResult = <<>>

\* One call calculateIterations(numZooms, initial, increment, cap).
CalcCall ==
    /\ ciResult = <<>>
    /\ ciResult' = <<calculateIterations(ciArgs[1], ciArgs[2], ciArgs[3], ciArgs[4])>>
    /\ UNCHANGED <<mainpc, fullRender, intents, intentLimit, viewVars, curMaxIterations,
                   isRecalculatingFractal, cancelRender, renderingTask, renderMutex,
                   pixelDataBuffer, renderProgress, renderMaxProgress, textureVars,
                   jobVars, histVars, ciArgs, callArgs, callResult, ghostVars,
                   overlayVars>>

CalcNext == CalcCall

SpecCalc == CalcInit /\ [][CalcNext]_vars

\* ---------------------- calculateIterations on two zoom counts, n1 <= n2

\* Zoom counts: small ones, and ones whose product with the increment leaves
\* 32 bits (107374182 * 40 + 96 = 2^32 + 80).
ZoomSamples == {<<0, 0>>, <<0, 1>>, <<0, 2>>, <<1638, 26214>>, <<65535, 65535>>}

\* ciArgs = <<n1, n2, initial, increment, cap>> with n1 <= n2 and cap >= 1.
MonoInit ==
    /\ RendererInit
    /\ ciArgs \in {a \in ZoomSamples \X ZoomSamples \X U32Samples \X U32Samples \X U32Samples :
                      /\ ~U32Less(a[2], a[1])
                      /\ a[5] # <<0, 0>>}
    /\ ciResult = <<>>
    /\ callArgs = <<>>
    /\ callResult = <<>>

\* The two calls calculateIterations(n1, ...) and calculateIterations(n2, ...).
MonoCall ==
    /\ ciResult = <<>>
    /\ ciResult' = <<calculateIterations(ciArgs[1], ciArgs[3], ciArgs[4], ciArgs[5]),
                     calculateIterations(ciArgs[2], ciArgs[3], ciArgs[4], ciArgs[5])>>
    /\ UNCHANGED <<mainpc, fullRender, intents, intentLimit, viewVars, curMaxIterations,
                   isRecalculatingFractal, cancelRender, renderingTask, renderMutex,
                   pixelDataBuffer, renderProgress, renderMaxProgress, textureVars,
                   jobVars, histVars, ciArgs, callArgs, callResult, ghostVars,
                   overlayVars>>

MonoNext == MonoCall

SpecMono == MonoInit /\ [][MonoNext]_vars

\* ------------------------------------- the trajectory overlay and the frame

\* A background render is in flight: a rendering task has not ended.
JobInFlight == \E j \in Jobs : task[j].pc \notin {"none", "done"}

\* Lines 593-605 and 874-945: a right click outside the UI. Ignored while
\* isRecalculatingFractal is set; otherwise the orbit of the clicked point is
\* computed with the active fractal's trajectory function and curMaxIterations
\* and, unless it is empty, drawn into a new trajectoryTexture.
RightClick ==
    /\ mainpc = "idle"
    /\ phase = "events"
    /\ IF isRecalculatingFractal \/ curMaxIterations = 0
       THEN /\ rightClick' = [inFlight |-> JobInFlight, drawn |-> FALSE]
            /\ UNCHANGED trajectoryTexture
       ELSE /\ rightClick' = [inFlight |-> JobInFlight, drawn |-> TRUE]
            /\ trajectoryTexture' = curFractalIdx
    /\ UNCHANGED <<mainpc, fullRender, intents, intentLimit, viewVars, curMaxIterations,
                   isRecalculatingFractal, cancelRender, renderingTask, renderMutex,
                   pixelDataBuffer, renderProgress, renderMaxProgress, textureVars, jobVars,
                   histVars, calcVars, lastIntent, failed, destroyTrajectory, phase,
                   frameOverlay, shown>>

\* Lines 1109-1118: handleEvents has returned; run() destroys the overlay if
\* destroyTrajectory is set, and calls renderFrame.
RunLoopDestroy ==
    /\ mainpc = "idle"
    /\ phase = "events"
    /\ phase' = "frame"
    /\ trajectoryTexture' = IF destroyTrajectory THEN -1 ELSE trajectoryTexture
    /\ destroyTrajectory' = FALSE
    /\ UNCHANGED <<mainpc, fullRender, intents, intentLimit, viewVars, curMaxIterations,
                   isRecalculatingFractal, cancelRender, renderingTask, renderMutex,
                   pixelDataBuffer, renderProgress, renderMaxProgress, textureVars, jobVars,
                   histVars, calcVars, ghostVars, frameOverlay, shown>>

\* Lines 1084-1085: renderFrame copies the overlay, if any, into the frame;
\* the UI windows are drawn next.
RenderOverlay ==
    /\ mainpc = "idle"
    /\ phase = "frame"
    /\ phase' = "ui"
    /\ frameOverlay' = trajectoryTexture
    /\ UNCHANGED <<mainpc, fullRender, intents, intentLimit, viewVars, curMaxIterations,
                   isRecalculatingFractal, cancelRender, renderingTask, renderMutex,
                   pixelDataBuffer, renderProgress, renderMaxProgress, textureVars, jobVars,
                   histVars, calcVars, ghostVars, trajectoryTexture, destroyTrajectory, shown>>

\* Line 1102: SDL_RenderPresent shows the composed frame.
Present ==
    /\ mainpc = "idle"
    /\ phase = "ui"
    /\ phase' = "events"
    /\ shown' = [overlay |-> frameOverlay, func |-> curFractalIdx]
    /\ frameOverlay' = -1
    /\ UNCHANGED <<mainpc, fullRender, intents, intentLimit, viewVars, curMaxIterations,
                   isRecalculatingFractal, cancelRender, renderingTask, renderMutex,
                   pixelDataBuffer, renderProgress, renderMaxProgress, textureVars, jobVars,
                   histVars, calcVars, ghostVars, trajectoryTexture, destroyTrajectory>>

\* The renderer with its frame loop, right clicks, and fractal selection by
\* key (while events are handled) or by the selector combo (while the UI is drawn).
OverlayNext ==
    \/ \E idx \in FractalIndices : selectFractal(idx)
    \/ RightClick
    \/ RunLoopDestroy
    \/ RenderOverlay
    \/ Present
    \/ RunStart
    \/ BeginCheck
    \/ BeginWait
    \/ BeginReset
    \/ BeginSetup
    \/ BeginAssign
    \/ \E j \in Jobs : TaskStep(j)
    \/ \E j \in Jobs : \E i \in Threads : WorkerStep(j, i)

SpecOverlay == Init /\ [][OverlayNext]_vars

\* ------------------------------------------------------ resource failures

\* Lines 779-799: as BeginSetup, but SDL_CreateTexture returns nullptr:
\* beginAsyncRendering logs and returns before launching a task.
BeginSetupFails ==
    /\ mainpc = "b_setup"
    /\ \E sf \in ScaleFactorsRead(curResolutionIdx) :
          /\ pixelDataBuffer' = Resized(pixelDataBuffer,
                                        ScaledLength(winWidth, sf) * ScaledLength(winHeight, sf))
          /\ renderMaxProgress' = ScaledLength(winWidth, sf)
    /\ isRecalculatingFractal' = TRUE
    /\ renderProgress' = 0
    /\ textures' = Destroyed(textures, fractalTextureBuffer)
    /\ fractalTextureBuffer' = 0
    /\ mainpc' = "idle"
    /\ UNCHANGED <<fullRender, intents, intentLimit, viewVars, curMaxIterations, cancelRender,
                   renderingTask, renderMutex, fractalTexture, jobVars, histVars, calcVars,
                   ghostVars, overlayVars>>

\* Lines 804-815: the task sets curMaxIterations, then SDL_AllocFormat returns
\* nullptr: the task logs and returns without starting a worker.
TaskStartFails(j) ==
    /\ task[j].pc = "start"
    /\ curMaxIterations' =
          IF task[j].fullRender THEN maxIterations
          ELSE calculateIterations(U32Of(numZooms), U32Of(INITIAL_ITERATIONS),
                                   U32Of(ITERATION_INCREMENT), U32Of(maxIterations))
    /\ SetTaskPc(j, "done")
    /\ ThreadsDestroyed(j)
    /\ failed' = failed \cup {j}
    /\ UNCHANGED <<mainpc, fullRender, intents, intentLimit, viewVars, isRecalculatingFractal, cancelRender,
                   renderingTask, renderMutex, pixelDataBuffer, renderProgress,
                   renderMaxProgress, textureVars, numJobs, histVars, calcVars, lastIntent,
                   rightClick, overlayVars>>

\* Variant: the task goes on to the swap when the texture cannot be locked.
TaskCopyFailsSwaps(j) ==
    /\ task[j].pc = "copy"
    /\ SetTaskPc(j, "swap")
    /\ failed' = failed \cup {j}
    /\ UNCHANGED <<mainpc, fullRender, intents, intentLimit, viewVars, curMaxIterations,
                   isRecalculatingFractal, cancelRender, renderingTask, renderMutex,
                   pixelDataBuffer, renderProgress, renderMaxProgress, textureVars, numJobs,
                   workers, histVars, calcVars, lastIntent, rightClick, overlayVars>>

\* Lines 858-861: SDL_LockTexture fails: the task logs and returns, which
\* releases the lock_guard.
TaskCopyFails(j) ==
    /\ task[j].pc = "copy"
    /\ renderMutex' = 0
    /\ SetTaskPc(j, "done")
    /\ ThreadsDestroyed(j)
    /\ failed' = failed \cup {j}
    /\ UNCHANGED <<mainpc, fullRender, intents, intentLimit, viewVars, curMaxIterations,
                   isRecalculatingFractal, cancelRender, renderingTask,
                   pixelDataBuffer, renderProgress, renderMaxProgress, textureVars, numJobs,
                   histVars, calcVars, lastIntent, rightClick, overlayVars>>

FailNext ==
    \/ Next
    \/ BeginSetupFails
    \/ \E j \in Jobs : TaskStartFails(j)
    \/ \E j \in Jobs : TaskCopyFails(j)

SpecFail == Init /\ [][FailNext]_vars

\* -------------------------------- right clicks among all the handlers

\* The renderer with every handler, the resource failures, and right clicks.
ClickNext ==
    \/ FailNext
    \/ RightClick

SpecClick == Init /\ [][ClickNext]_vars

\* ------------------------------ selectResolution called with any index

\* Arguments of selectResolution(unsigned int): the five options and one past them.
ApiResolutionIndices == 0..5

ResNext ==
    \/ \E idx \in ApiResolutionIndices : selectResolution(idx)
    \/ RunStart
    \/ BeginCheck
    \/ BeginWait
    \/ BeginReset
    \/ BeginSetup
    \/ BeginAssign
    \/ \E j \in Jobs : TaskStep(j)
    \/ \E j \in Jobs : \E i \in Threads : WorkerStep(j, i)

SpecRes == Init /\ [][ResNext]_vars

\* ------------------------------------------------------ resetting the view

\* The renderer handling up to ResetIntents intents, each a left click (the
\* offset changes), a wheel step up (the zoom changes) or a reset.
ResetInit ==
    /\ Constructed
    /\ intentLimit = ResetIntents
    /\ NoCall

ResetNext ==
    \/ \E c \in ClickPoints : LeftClick(c)
    \/ Wheel(TRUE)
    \/ resetToInitialFractal
    \/ RunStart
    \/ BeginCheck
    \/ BeginWait
    \/ BeginReset
    \/ BeginSetup
    \/ BeginAssign
    \/ \E j \in Jobs : TaskStep(j)
    \/ \E j \in Jobs : \E i \in Threads : WorkerStep(j, i)

SpecReset == ResetInit /\ [][ResetNext]_vars

\* ------------------------- screenToFractal / fractalToScreen on their inputs

\* Significand width of long double as the x87 extended format has it.
SignificandBits == 64

RECURSIVE Pow2(_)
Pow2(n) == IF n = 0 THEN 1 ELSE 2 * Pow2(n - 1)

RECURSIVE BitLength(_)
BitLength(n) == IF n = 0 THEN 0 ELSE 1 + BitLength(n \div 2)

IsPowerOfTwo(n) == n > 0 /\ Pow2(BitLength(n) - 1) = n

Abs(n) == IF n < 0 THEN -n ELSE n

\* Round-to-nearest, ties to even, of the integer e to a multiple of 2^dropped
\* (the rounding of a floating-point sum whose last `dropped` bits do not fit).
RoundToMultiple(e, dropped) ==
    LET m == Pow2(dropped)
        q == e \div m
        r == e - q * m
    IN  IF 2 * r < m THEN q * m
        ELSE IF 2 * r > m THEN (q + 1) * m
        ELSE IF q % 2 = 0 THEN q * m ELSE (q + 1) * m

\* The plane ratios are 2^-k and the offsets are integers, and lengths on the
\* screen are counted in half pixels (halfWinWidth = winWidth / 2 is a whole
\* number of them), so every product and quotient of lines 28-29 and 40-41
\* is exact and the only rounding is that of `... + offset` to a long double.
\* With unit = 2^-(k+1), the sum is offset * 2^(k+1) + d units, d = the screen
\* distance in half pixels. LongDoubleSum gives the units the rounded sum lies
\* away from the offset.
LongDoubleSum(d, k, offset) ==
    LET a == Abs(offset)
        e == IF offset < 0 THEN -d ELSE d
        len == k + 1 + BitLength(a) - (IF e < 0 /\ IsPowerOfTwo(a) THEN 1 ELSE 0)
        dropped == IF offset = 0 \/ len <= SignificandBits THEN 0
                   ELSE len - SignificandBits
        rounded == RoundToMultiple(e, dropped)
    IN  IF offset < 0 THEN -rounded ELSE rounded

\* Conversion of a non-negative number of half pixels to unsigned int pixels:
\* the fraction is discarded.
ToUnsigned(halfPixels) == halfPixels \div 2

\* screenToFractal(px, py, halfWinWidth, halfWinHeight, ratios 2^-kx and 2^-ky,
\* offsetX, offsetY): the point, as units away from the offsets.
screenToFractal(px, py, halfWinWidth, halfWinHeight, kx, ky, offX, offY) ==
    [re |-> LongDoubleSum(2 * px - halfWinWidth, kx, offX),
     im |-> LongDoubleSum(halfWinHeight - 2 * py, ky, offY)]

\* fractalToScreen(z, ...) for a point z given relative to the same offsets:
\* z.real() - offsetX and -z.imag() + offsetY are exact, the division by the
\* ratio turns units into half pixels, and the sum is converted to unsigned.
fractalToScreen(z, halfWinWidth, halfWinHeight, kx, ky, offX, offY) ==
    <<ToUnsigned(z.re + halfWinWidth), ToUnsigned(-z.im + halfWinHeight)>>

\* Window sizes: the initial one and an odd one after a resize.
CoordWindows == {<<1600, 900>>, <<1601, 901>>}

\* Ratios 2^-k: the initial zoom, the last zoom whose sums are exact, and
\* deeper ones.
RatioExponents == {8, 62, 66, 69}

CoordOffsets == {-1, 0, 1, 3}

CoordPixels(length) == {0, 1, length \div 2, length - 1}

CoordInputs ==
    UNION {[win : {w}, px : CoordPixels(w[1]), py : CoordPixels(w[2]),
            kx : RatioExponents, ky : RatioExponents,
            offsetX : CoordOffsets, offsetY : CoordOffsets] : w \in CoordWindows}

\* The round trip fractalToScreen(screenToFractal(px, py, ...), ...).
RoundTrip(a) ==
    fractalToScreen(
        screenToFractal(a.px, a.py, a.win[1], a.win[2], a.kx, a.ky, a.offsetX, a.offsetY),
        a.win[1], a.win[2], a.kx, a.ky, a.offsetX, a.offsetY)

\* The conversions to unsigned int of lines 40-41 are defined: the converted
\* values are not negative.
ConversionDefined(a) ==
    LET z == screenToFractal(a.px, a.py, a.win[1], a.win[2], a.kx, a.ky,
                             a.offsetX, a.offsetY)
    IN  z.re + a.win[1] >= 0 /\ -z.im + a.win[2] >= 0

CoordInit ==
    /\ RendererInit
    /\ ciArgs = <<>>
    /\ ciResult = <<>>
    /\ callArgs \in {<<a>> : a \in {b \in CoordInputs : ConversionDefined(b)}}
    /\ callResult = <<>>

CoordCall ==
    /\ callResult = <<>>
    /\ callResult' = <<RoundTrip(callArgs[1])>>
    /\ UNCHANGED <<mainpc, fullRender, intents, intentLimit, viewVars, curMaxIterations,
                   isRecalculatingFractal, cancelRender, renderingTask, renderMutex,
                   pixelDataBuffer, renderProgress, renderMaxProgress, textureVars,
                   jobVars, histVars, ciArgs, ciResult, callArgs, ghostVars,
                   overlayVars>>

CoordNext == CoordCall

SpecCoord == CoordInit /\ [][CoordNext]_vars

\* ------------------------------- screenToFractal on two rows of the screen

\* A pixel (px, py) and a row py2 below it.
MapInputs ==
    {a \in CoordInputs \X (0..901) : a[2] \in CoordPixels(a[1].win[2]) /\ a[1].py < a[2]}

MapInit ==
    /\ RendererInit
    /\ ciArgs = <<>>
    /\ ciResult = <<>>
    /\ callArgs \in MapInputs
    /\ callResult = <<>>

\* screenToFractal(px, py, ...) and screenToFractal(px, py2, ...) in one view.
MapCall ==
    /\ callResult = <<>>
    /\ callResult' =
          LET a == callArgs[1]
          IN  <<screenToFractal(a.px, a.py, a.win[1], a.win[2], a.kx, a.ky,
                                a.offsetX, a.offsetY),
                screenToFractal(a.px, callArgs[2], a.win[1], a.win[2], a.kx, a.ky,
                                a.offsetX, a.offsetY)>>
    /\ UNCHANGED <<mainpc, fullRender, intents, intentLimit, viewVars, curMaxIterations,
                   isRecalculatingFractal, cancelRender, renderingTask, renderMutex,
                   pixelDataBuffer, renderProgress, renderMaxProgress, textureVars,
                   jobVars, histVars, ciArgs, ciResult, callArgs, ghostVars,
                   overlayVars>>

MapNext == MapCall

SpecMap == MapInit /\ [][MapNext]_vars

\* ---------------------------------------------------------- drawTrajectory

\* A number of half pixels as whole pixels, the fraction discarded.
Truncated(halfPixels) ==
    IF halfPixels >= 0 THEN halfPixels \div 2 ELSE -((-halfPixels) \div 2)

\* The conversion to unsigned int in fractalToScreen (lines 40-41) of a value
\* of -1 or less is undefined. A build either wraps the value modulo 2^32,
\* and static_cast<int> (lines 906-907) gives the negative value back, or
\* saturates it to 0.
ConversionOutcomes == {"wrap", "zero"}

\* static_cast<int>(curPoint.first) or (curPoint.second) of a sample whose
\* coordinate is halfPixels / 2 before the conversions.
ScreenInt(halfPixels, outcome) ==
    LET t == Truncated(halfPixels)
    IN  IF t >= 0 THEN t ELSE IF outcome = "wrap" THEN t ELSE 0

ScreenPoint(z, win, outcome) ==
    <<ScreenInt(z.re + win[1], outcome), ScreenInt(-z.im + win[2], outcome)>>

\* SDL_Rect of side pointSize = 4 around a pixel.
PointRect(x, y) == [x |-> x - 2, y |-> y - 2, w |-> 4, h |-> 4]

\* The loop of lines 901-923 from sample i on.
RECURSIVE DrawLoop(_, _, _, _, _, _)
DrawLoop(trajectoryPoints, i, win, outcome, linePoints, pointRects) ==
    IF i > Len(trajectoryPoints)
    THEN [linePoints |-> linePoints, pointRects |-> pointRects]
    ELSE LET cur      == ScreenPoint(trajectoryPoints[i], win, outcome)
             clampedX == Clamp(cur[1], 0, win[1])
             clampedY == Clamp(cur[2], 0, win[2])
             clamped  == clampedX # cur[1] \/ clampedY # cur[2]
         IN  DrawLoop(trajectoryPoints, i + 1, win, outcome,
                      Append(linePoints, <<clampedX, clampedY>>),
                      IF clamped THEN pointRects
                      ELSE Append(pointRects, PointRect(cur[1], cur[2])))

\* drawTrajectory(trajectoryPoints) in the view a, for a start point whose
\* conversion is defined: the vertices of the polyline, the markers of the
\* samples and the marker of the start point.
drawTrajectory(trajectoryPoints, a, outcome) ==
    IF trajectoryPoints = <<>>
    THEN [drawn |-> FALSE, conversion |-> outcome, linePoints |-> <<>>,
          pointRects |-> <<>>, startRect |-> <<>>]
    ELSE LET start == fractalToScreen(trajectoryPoints[1], a.win[1], a.win[2],
                                      a.kx, a.ky, a.offsetX, a.offsetY)
             loop  == DrawLoop(trajectoryPoints, 2, a.win, outcome, <<start>>, <<>>)
         IN  [drawn |-> TRUE, conversion |-> outcome,
              linePoints |-> loop.linePoints,
              pointRects |-> loop.pointRects,
              startRect |-> <<PointRect(start[1], start[2])>>]

\* Ratios 2^-k of the views: the initial zoom and a deep one.
DrawExponents == {8, 72}

DrawOffsets == {0, 3}

DrawViews ==
    {a \in [win : {<<1600, 900>>}, px : CoordPixels(1600), py : CoordPixels(900),
            kx : DrawExponents, ky : DrawExponents,
            offsetX : DrawOffsets, offsetY : DrawOffsets] :
        a.kx = a.ky /\ ConversionDefined(a)}

\* Later points of a trajectory, as units away from the offsets: left of and
\* above the viewport, its centre, right of and below it.
DrawPoints ==
    {[re |-> -4096, im |-> 0], [re |-> 0, im |-> 0], [re |-> 2048, im |-> 2048],
     [re |-> 0, im |-> -4096], [re |-> 8192, im |-> 8192]}

DrawTails == {<<>>} \cup {<<p>> : p \in DrawPoints}
                 \cup {<<p, q>> : p \in DrawPoints, q \in DrawPoints}

\* The vector the right click passes (lines 598-604): empty, or the clicked
\* point c = screenToFractal(mx, my, ...) followed by later points.
DrawTrajectories(a) ==
    {<<>>} \cup
    {<<screenToFractal(a.px, a.py, a.win[1], a.win[2], a.kx, a.ky,
                       a.offsetX, a.offsetY)>> \o tail : tail \in DrawTails}

DrawInit ==
    /\ RendererInit
    /\ ciArgs = <<>>
    /\ ciResult = <<>>
    /\ callArgs \in UNION {{<<a, t>> : t \in DrawTrajectories(a)} : a \in DrawViews}
    /\ callResult = <<>>

DrawCall ==
    /\ callResult = <<>>
    /\ \E outcome \in ConversionOutcomes :
          callResult' = <<drawTrajectory(callArgs[2], callArgs[1], outcome)>>
    /\ UNCHANGED <<mainpc, fullRender, intents, intentLimit, viewVars, curMaxIterations,
                   isRecalculatingFractal, cancelRender, renderingTask, renderMutex,
                   pixelDataBuffer, renderProgress, renderMaxProgress, textureVars,
                   jobVars, histVars, ciArgs, ciResult, callArgs, ghostVars,
                   overlayVars>>

DrawNext == DrawCall

SpecDraw == DrawInit /\ [][DrawNext]_vars

\* ------------------------------------------------------- refreshFractalSize

\* A positive double is [bits, exp]: DoubleBits binary digits, the first one 1,
\* read as an integer and scaled by 2^exp.
DoubleBits == 53

Zeros(n) == [i \in 1..n |-> 0]

RECURSIVE BitsOf(_)
BitsOf(n) == IF n = 0 THEN <<>> ELSE Append(BitsOf(n \div 2), n % 2)

\* The double that holds the integer n, 0 < n < 2^31.
DoubleOf(n) ==
    LET b == BitsOf(n)
    IN  [bits |-> b \o Zeros(DoubleBits - Len(b)), exp |-> Len(b) - DoubleBits]

TimesPow2(f, k) == [f EXCEPT !.exp = f.exp + k]

\* The number of zeros before the first 1 of the digits (all of them if
\* there is none).
LeadingZeros(b) ==
    Cardinality({i \in 1..Len(b) : \A j \in 1..i : b[j] = 0})

\* The digits of the number + 1, one digit longer when all digits are 1.
Increment(b) ==
    LET ones == Cardinality({i \in 1..Len(b) : \A j \in i..Len(b) : b[j] = 1})
    IN  IF ones = Len(b) THEN <<1>> \o Zeros(ones)
        ELSE SubSeq(b, 1, Len(b) - ones - 1) \o <<1>> \o Zeros(ones)

\* Round to nearest, ties to even, of the number q * 2^exp (+ a fraction of
\* the last place when sticky) to n digits; q has no leading zero and more
\* than n digits.
RoundTo(q, exp, sticky, n) ==
    LET kept    == SubSeq(q, 1, n)
        dropped == Len(q) - n
        rest    == sticky \/ \E i \in (n + 2)..Len(q) : q[i] = 1
        up      == q[n + 1] = 1 /\ (rest \/ kept[n] = 1)
        m       == IF up THEN Increment(kept) ELSE kept
    IN  IF Len(m) > n
        THEN [bits |-> SubSeq(m, 1, n), exp |-> exp + dropped + 1]
        ELSE [bits |-> m, exp |-> exp + dropped]

RoundToDouble(q, exp, sticky) == RoundTo(q, exp, sticky, DoubleBits)

\* One step of the long division by the integer w: the next digit enters
\* the remainder d.r and a digit is appended to the quotient d.q.
DivideStep(d, digit, w) ==
    IF 2 * d.r + digit >= w
    THEN [q |-> Append(d.q, 1), r |-> 2 * d.r + digit - w]
    ELSE [q |-> Append(d.q, 0), r |-> 2 * d.r + digit]

\* The long division d continued over the digits lo..hi of b, the first half
\* of them before the second.
RECURSIVE LongDivide(_, _, _, _, _)
LongDivide(b, lo, hi, w, d) ==
    IF lo > hi \/ d.r >= w THEN d
    ELSE IF lo = hi THEN DivideStep(d, b[lo], w)
    ELSE LongDivide(b, (lo + hi) \div 2 + 1, hi, w,
                    LongDivide(b, lo, (lo + hi) \div 2, w, d))

\* The double f / w for an unsigned int 0 < w < 2^11 (converted exactly).
DoubleOverInt(f, w) ==
    LET d == LongDivide(f.bits \o Zeros(12), 1, DoubleBits + 12, w,
                        [q |-> <<>>, r |-> 0])
        z == LeadingZeros(d.q)
    IN  RoundToDouble(SubSeq(d.q, z + 1, Len(d.q)), f.exp - 12, d.r # 0)

\* a >= b for the digits k.. of two digit sequences of one length.
DigitsGeq(a, b, k) ==
    LET differ == {j \in k..Len(a) : a[j] # b[j]}
    IN  \/ differ = {}
        \/ \E j \in differ : a[j] > b[j] /\ \A l \in differ : j <= l

\* a - b for digit sequences of one length, a >= b: digit i borrows when the
\* digits after it are smaller in a than in b.
DigitsMinus(a, b) ==
    SubSeq([i \in 1..Len(a) |->
               (a[i] - b[i] - (IF DigitsGeq(a, b, i + 1) THEN 0 ELSE 1) + 2) % 2],
           1, Len(a))

\* One step of the long division by the digit sequence y: x is the remainder
\* with the next digit; the remainder keeps the length of y.
DigitsStep(d, x, y) ==
    IF DigitsGeq(x, y, 1)
    THEN [q |-> Append(d.q, 1), r |-> DigitsMinus(x, y)]
    ELSE [q |-> Append(d.q, 0), r |-> x]

\* The long division d continued over n zero digits, the first half of them
\* before the second.
RECURSIVE LongDivideDigits(_, _, _)
LongDivideDigits(n, y, d) ==
    IF n = 0 \/ Len(d.r) # Len(y) THEN d
    ELSE IF n = 1 THEN DigitsStep(d, Append(Tail(d.r), 0), y)
    ELSE LongDivideDigits(n - n \div 2, y, LongDivideDigits(n \div 2, y, d))

\* The same value with len digits.
Padded(f, len) ==
    [bits |-> f.bits \o Zeros(len - Len(f.bits)), exp |-> f.exp - (len - Len(f.bits))]

\* f / g rounded to n digits: the digits of f, followed by n + 1 zeros,
\* divided by those of g. The first quotient digit that can be 1 is the one
\* after the last digit of f has entered the remainder.
Quotient(f, g, n) ==
    LET len == IF Len(f.bits) > Len(g.bits) THEN Len(f.bits) ELSE Len(g.bits)
        y == <<0, 0>> \o Padded(g, len).bits
        d == LongDivideDigits(n + 1, y,
                              DigitsStep([q |-> <<>>], <<0, 0>> \o Padded(f, len).bits, y))
        z == LeadingZeros(d.q)
    IN  RoundTo(SubSeq(d.q, z + 1, Len(d.q)),
                Padded(f, len).exp - (n + 1) - Padded(g, len).exp,
                \E i \in 1..Len(d.r) : d.r[i] = 1, n)

\* The double f / g.
DoubleOverDouble(f, g) == Quotient(f, g, DoubleBits)

\* double aspectRatio = winWidth / (double)winHeight (line 702).
AspectRatio(w, h) == DoubleOverInt(DoubleOf(w), h)

\* 4.0 / zoom for zoom = 2^n: the power of two 2^(2 - n).
PlaneSpan(n) == TimesPow2(DoubleOf(1), 2 - n)

\* Lines 713-714: the ratios of the plane size to the window size.
PlaneRatios(w, h, size) ==
    [fractalWidth |-> size[1], fractalHeight |-> size[2],
     fractalWidthRatio |-> DoubleOverInt(size[1], w),
     fractalHeightRatio |-> DoubleOverInt(size[2], h)]

\* Lines 704-711: <<fractalWidth, fractalHeight>>; the product of a power of
\* two with the aspect ratio is exact.
PlaneSize(w, h, n, aspectRatio) ==
    IF w < h
    THEN <<PlaneSpan(n), DoubleOverDouble(PlaneSpan(n), aspectRatio)>>
    ELSE <<TimesPow2(aspectRatio, 2 - n), PlaneSpan(n)>>

\* refreshFractalSize for the window w x h and zoom = 2^n.
refreshFractalSize(w, h, n) ==
    PlaneRatios(w, h, PlaneSize(w, h, n, AspectRatio(w, h)))

\* Window sizes from the minimum 600 x 450 up, the initial one among them.
PlaneWindows ==
    {<<1600, 900>>, <<600, 450>>, <<600, 492>>, <<600, 499>>, <<800, 800>>,
     <<601, 450>>, <<1280, 720>>, <<1920, 1080>>, <<1000, 700>>,
     <<600, 1000>>, <<900, 1600>>, <<700, 701>>}

PlaneZooms == 0..8

\* callArgs holds the view <<winWidth, winHeight, n>> with zoom = 2^n, and
\* callResult the plane values stored for it; the constructor calls
\* refreshFractalSize for the initial view (line 488).
PlaneInit ==
    /\ RendererInit
    /\ ciArgs = <<>>
    /\ ciResult = <<>>
    /\ callArgs = <<1600, 900, 0>>
    /\ callResult = <<refreshFractalSize(1600, 900, 0)>>

PlaneUnchanged ==
    UNCHANGED <<mainpc, fullRender, intents, intentLimit, viewVars, curMaxIterations,
                isRecalculatingFractal, cancelRender, renderingTask, renderMutex,
                pixelDataBuffer, renderProgress, renderMaxProgress, textureVars,
                jobVars, histVars, ciArgs, ciResult, ghostVars, overlayVars>>

PlaneView(w, h, n) ==
    /\ callArgs' = <<w, h, n>>
    /\ callResult' = <<refreshFractalSize(w, h, n)>>

\* setWindowSize (680-699).
PlaneResize(w, h) ==
    /\ IF w = callArgs[1] /\ h = callArgs[2]
       THEN UNCHANGED <<callArgs, callResult>>
       ELSE PlaneView(w, h, callArgs[3])
    /\ PlaneUnchanged

\* setZoomLevel (739-750) for the power of ten that equals 2^n.
PlaneZoom(n) ==
    /\ IF n < 0
       THEN UNCHANGED <<callArgs, callResult>>
       ELSE PlaneView(callArgs[1], callArgs[2], n)
    /\ PlaneUnchanged

\* resetToInitialFractal (717-730); with zoom 1 and another offset it stores
\* the values of zoom 1 again.
PlaneReset ==
    /\ PlaneView(callArgs[1], callArgs[2], 0)
    /\ PlaneUnchanged

PlaneNext ==
    \/ \E sz \in PlaneWindows : PlaneResize(sz[1], sz[2])
    \/ \E n \in PlaneZooms \cup {-1} : PlaneZoom(n)
    \/ PlaneReset

SpecPlane == PlaneInit /\ [][PlaneNext]_vars

\* ------------------------------------------------ setZoomLevel, numZooms

\* zoom and numZooms are long doubles (fractal_renderer.hpp, lines 68-69): a
\* positive one is [bits, exp] with LongDoubleBits digits, the first one 1.
LongDoubleBits == 64

Zero == [bits |-> <<>>, exp |-> 0]

\* The long double that holds the integer n >= 0.
LongDoubleOf(n) ==
    IF n = 0 THEN Zero
    ELSE [bits |-> BitsOf(n) \o Zeros(LongDoubleBits - Len(BitsOf(n))),
          exp |-> Len(BitsOf(n)) - LongDoubleBits]

\* The binary digits of log10(2) = 0.30102999566398119521... after the point.
Log10Of2 ==
    <<0, 1, 0, 0, 1, 1, 0, 1, 0, 0, 0, 1, 0, 0, 0, 0, 0, 1, 0, 0, 1, 1, 0, 1,
      0, 1, 0, 0, 0, 0, 1, 0, 0, 1, 1, 1, 1, 1, 0, 1, 1, 1, 1, 0, 0, 1, 1, 1,
      1, 1, 1, 1, 1, 0, 1, 1, 1, 1, 0, 0, 1, 1, 0, 0, 0, 1, 0, 0, 0, 1, 1, 1>>

\* 1 - 0.digits for digits that do not end.
Complement(digits) == [i \in 1..Len(digits) |-> 1 - digits[i]]

\* The digits of b - 1, for b with a leading 1.
Decrement(b) ==
    LET zeros == Cardinality({i \in 1..Len(b) : \A j \in i..Len(b) : b[j] = 0})
    IN  SubSeq(b, 1, Len(b) - zeros - 1) \o <<0>> \o [i \in 1..zeros |-> 1]

\* The value b * 2^exp in n digits, for b of n or n + 1 digits.
Normalised(b, exp, n) ==
    IF Len(b) > n THEN [bits |-> SubSeq(b, 1, n), exp |-> exp + 1]
    ELSE IF b[1] = 0 THEN [bits |-> Tail(b) \o <<0>>, exp |-> exp - 1]
    ELSE [bits |-> b, exp |-> exp]

\* A result of the mathematical library for the irrational value
\* intPart + 0.frac: the library is accurate to a unit in the last place but
\* not correctly rounded, so the result is one of the two values of n digits
\* around the true value or one of their outer neighbours.
LibmResults(intPart, frac, n) ==
    LET digits == BitsOf(intPart) \o frac
        z      == LeadingZeros(digits)
        below  == SubSeq(digits, z + 1, z + n)
        exp    == Len(digits) - z - n - Len(frac)
    IN  {Normalised(b, exp, n) :
            b \in {Decrement(below), below, Increment(below),
                   Increment(Increment(below))}}

\* std::log10(2.0) of line 745, a double.
Log10Of2Doubles == LibmResults(0, Log10Of2, DoubleBits)

\* Lines 613-616: std::log10(zoom * ZOOM_SF) or std::log10(zoom / ZOOM_SF) for
\* zoom = 10^pow10, a long double: pow10 + log10(2) or pow10 - log10(2).
WheelZoomPowers(pow10, up) ==
    IF up THEN LibmResults(pow10, Log10Of2, LongDoubleBits)
    ELSE IF pow10 = 0 THEN {Zero}
    ELSE LibmResults(pow10 - 1, Complement(Log10Of2), LongDoubleBits)

\* Zoom powers entered in the Go control: -1 and 0..MaxGoPower.
MaxGoPower == 5

\* The zoom powers that reach line 745 and are not 0.
ZoomPowers ==
    {LongDoubleOf(p) : p \in 1..MaxGoPower}
        \cup UNION {WheelZoomPowers(p, TRUE) : p \in 0..MaxGoPower}
        \cup UNION {WheelZoomPowers(p, FALSE) : p \in 1..MaxGoPower}

\* Line 745: zoomPower / std::log10(2.0), a long double division, for every
\* zoom power and every value of std::log10(2.0) (computed once).
NumZoomsTable ==
    {<<zoomPower, log10of2, Quotient(zoomPower, log10of2, LongDoubleBits)>> :
        zoomPower \in ZoomPowers, log10of2 \in Log10Of2Doubles}

NumZoomsOf(zoomPower, log10of2) ==
    (CHOOSE t \in NumZoomsTable : t[1] = zoomPower /\ t[2] = log10of2)[3]

\* The view is [pow10, pow2, numZooms]: zoom is the long double that
\* pow(10.0, zoomPower) returns for 10^pow10 * 2^pow2, numZooms the stored
\* long double.
InitialZoomView == [pow10 |-> 0, pow2 |-> 0, numZooms |-> Zero]

\* Lines 739-750: setZoomLevel(zoomPower), zoomPower = log10(10^pow10 * 2^pow2);
\* log10of2 is the value of std::log10(2.0).
setZoomLevelValues(view, negative, zoomPower, pow10, pow2, log10of2) ==
    IF negative THEN view
    ELSE [pow10 |-> pow10, pow2 |-> pow2,
          numZooms |-> IF zoomPower = Zero THEN Zero
                       ELSE NumZoomsOf(zoomPower, log10of2)]

ZoomWindows == {<<1600, 900>>, <<600, 450>>}

\* The view has the initial zoom and the initial offsets (lines 718-719).
IsInitialView(view, atOrigin) == view.pow10 = 0 /\ view.pow2 = 0 /\ atOrigin

\* callArgs holds <<the build's std::log10(2.0), winWidth, winHeight, last>>
\* and callResult the view. last is the last operation: its name, the zoom
\* power p and the flag origin (both offsets 0) that Go was given, atOrigin
\* (both offsets are 0 now), hadValues (the view already had the requested
\* values) and dispatched (the operation called beginAsyncRendering).
ZoomInit ==
    /\ RendererInit
    /\ ciArgs = <<>>
    /\ ciResult = <<>>
    /\ callArgs \in {<<l, 1600, 900,
                       [op |-> "run", p |-> 0, origin |-> TRUE, atOrigin |-> TRUE,
                        hadValues |-> TRUE, dispatched |-> TRUE]>> :
                     l \in Log10Of2Doubles}
    /\ callResult = <<InitialZoomView>>

ZoomUnchanged ==
    UNCHANGED <<mainpc, fullRender, intents, intentLimit, viewVars, curMaxIterations,
                isRecalculatingFractal, cancelRender, renderingTask, renderMutex,
                pixelDataBuffer, renderProgress, renderMaxProgress, textureVars,
                jobVars, histVars, ciArgs, ciResult, ghostVars, overlayVars>>

\* Lines 608-623: a wheel step from a zoom 10^pow10 that Go, reset or the
\* constructor has set; the step is rejected when zoomPower < 0.
ZoomWheel(up) ==
    /\ callResult[1].pow2 = 0
    /\ \E zoomPower \in WheelZoomPowers(callResult[1].pow10, up) :
          callResult' = <<setZoomLevelValues(callResult[1],
                                             callResult[1].pow10 = 0 /\ ~up, zoomPower,
                                             callResult[1].pow10, IF up THEN 1 ELSE -1,
                                             callArgs[1])>>
    /\ callArgs' = [callArgs EXCEPT ![4] =
                       [op |-> "wheel", p |-> 0, origin |-> callArgs[4].atOrigin,
                        atOrigin |-> callArgs[4].atOrigin, hadValues |-> FALSE,
                        dispatched |-> ~(callResult[1].pow10 = 0 /\ ~up)]]
    /\ ZoomUnchanged

\* Lines 989-998: Go with the zoom power p; origin: the other two inputs are 0.
\* The inputs (1, 0, 0) equal INITIAL_ZOOM and the initial offsets, and Go
\* calls resetToInitialFractal for them.
ZoomGo(p, origin) ==
    /\ callResult' =
          <<IF p = 1 /\ origin THEN InitialZoomView
            ELSE setZoomLevelValues(callResult[1], p < 0,
                                    IF p < 0 THEN Zero ELSE LongDoubleOf(p),
                                    p, 0, callArgs[1])>>
    /\ callArgs' = [callArgs EXCEPT ![4] =
                       [op |-> "go", p |-> p, origin |-> origin,
                        atOrigin |-> origin,
                        hadValues |-> /\ callResult[1].pow10 = p
                                      /\ callResult[1].pow2 = 0
                                      /\ callArgs[4].atOrigin = origin,
                        dispatched |-> IF p = 1 /\ origin
                                       THEN ~IsInitialView(callResult[1], callArgs[4].atOrigin)
                                       ELSE TRUE]]
    /\ ZoomUnchanged

\* Lines 717-730: the reset ends in the initial view, also when it returns early.
ZoomReset ==
    /\ callResult' = <<InitialZoomView>>
    /\ callArgs' = [callArgs EXCEPT ![4] =
                       [op |-> "reset", p |-> 0, origin |-> TRUE, atOrigin |-> TRUE,
                        hadValues |-> IsInitialView(callResult[1], callArgs[4].atOrigin),
                        dispatched |-> ~IsInitialView(callResult[1], callArgs[4].atOrigin)]]
    /\ ZoomUnchanged

\* Lines 680-699: a resize to another size leaves zoom, numZooms and the
\* offsets alone.
ZoomResize(w, h) ==
    /\ <<w, h>> # <<callArgs[2], callArgs[3]>>
    /\ callArgs' = <<callArgs[1], w, h,
                     [op |-> "resize", p |-> 0, origin |-> callArgs[4].atOrigin,
                      atOrigin |-> callArgs[4].atOrigin, hadValues |-> FALSE,
                      dispatched |-> TRUE]>>
    /\ UNCHANGED callResult
    /\ ZoomUnchanged

ZoomNext ==
    \/ \E up \in BOOLEAN : ZoomWheel(up)
    \/ \E p \in -1..MaxGoPower : \E origin \in BOOLEAN : ZoomGo(p, origin)
    \/ ZoomReset
    \/ \E sz \in ZoomWindows : ZoomResize(sz[1], sz[2])

SpecZoom == ZoomInit /\ [][ZoomNext]_vars

\* ------------------------------------------- setFractalOffset, the pan region

\* The window 1024 x 512 (after a resize): its plane ratios are powers of two,
\* 2^-(7 + n) at zoom 2^n, as refreshFractalSize computes them.
PanWindow == <<1024, 512>>

\* Zooms 2^0..2^MaxPanZoom that the wheel reaches here.
MaxPanZoom == 1

\* Plane coordinates are counted in units of 2^-UnitShift, half a pixel at the
\* deepest zoom; every sum and product of lines 28-29 of fractals.cpp is exact
\* on them, because the values have far fewer than 64 digits.
UnitShift == 8 + MaxPanZoom

\* MIN_REAL = MIN_IMAG and MAX_REAL = MAX_IMAG in units.
MinUnits == MIN_PLANE * Pow2(UnitShift - 1)
MaxUnits == MAX_PLANE * Pow2(UnitShift - 1)

\* fractalWidthRatio and fractalHeightRatio at zoom 2^n, in units per pixel.
UnitsPerPixel ==
    [n \in 0..MaxPanZoom |->
        LET r == refreshFractalSize(PanWindow[1], PanWindow[2], n)
        IN  <<Pow2(r.fractalWidthRatio.exp + DoubleBits - 1 + UnitShift),
              Pow2(r.fractalHeightRatio.exp + DoubleBits - 1 + UnitShift)>>]

\* fractals.cpp, lines 21-32: screenToFractal for the pixel (px, py) in the
\* view, halfWinWidth and halfWinHeight being whole numbers of pixels.
screenToFractalUnits(px, py, view) ==
    <<(px - PanWindow[1] \div 2) * UnitsPerPixel[view.n][1] + view.offsetX,
      (PanWindow[2] \div 2 - py) * UnitsPerPixel[view.n][2] + view.offsetY>>

\* Variant: setFractalOffset stores the requested point as it is.
UnclampedOffset(re, im) == <<re, im>>

\* Lines 732-737: setFractalOffset, fmin(fmax(real, MIN_REAL), MAX_REAL) on
\* each component.
ClampedOffset(re, im) ==
    <<Clamp(re, MinUnits, MaxUnits), Clamp(im, MinUnits, MaxUnits)>>

\* Pixels clicked: a corner, the window centre, and points between.
PanPixels == {<<0, 0>>, <<512, 256>>, <<768, 128>>, <<256, 384>>, <<512, 0>>}

\* Values typed into the Real and Imaginary inputs of the Go control.
PanRequests == {2 * MinUnits, MinUnits, 0, MaxUnits \div 2, MaxUnits, MaxUnits + 1}

InitialPanView == [n |-> 0, offsetX |-> 0, offsetY |-> 0]

\* callArgs holds the last request [op, re, im] and callResult the view
\* [n, offsetX, offsetY]: zoom = 2^n and the offsets in units.
PanInit ==
    /\ RendererInit
    /\ ciArgs = <<>>
    /\ ciResult = <<>>
    /\ callArgs = <<[op |-> "resize", re |-> 0, im |-> 0]>>
    /\ callResult = <<InitialPanView>>

\* Lines 584-592: left click at the pixel (mx, my).
PanClick(mx, my) ==
    /\ LET c == screenToFractalUnits(mx, my, callResult[1])
       IN  /\ callArgs' = <<[op |-> "click", re |-> c[1], im |-> c[2]]>>
           /\ callResult' = <<[n |-> callResult[1].n,
                               offsetX |-> ClampedOffset(c[1], c[2])[1],
                               offsetY |-> ClampedOffset(c[1], c[2])[2]]>>
    /\ ZoomUnchanged

\* Lines 989-998: Go with the zoom power 0 and the point (re, im).
PanGo(re, im) ==
    /\ callArgs' = <<[op |-> "go", re |-> re, im |-> im]>>
    /\ callResult' = <<[n |-> 0,
                        offsetX |-> ClampedOffset(re, im)[1],
                        offsetY |-> ClampedOffset(re, im)[2]]>>
    /\ ZoomUnchanged

\* Lines 717-730: the reset ends in the initial view, also when it returns early.
PanReset ==
    /\ callArgs' = <<[op |-> "reset", re |-> 0, im |-> 0]>>
    /\ callResult' = <<InitialPanView>>
    /\ ZoomUnchanged

\* Lines 608-623: a wheel step changes the zoom and leaves the offsets alone.
PanWheel(up) ==
    /\ up => callResult[1].n < MaxPanZoom
    /\ callArgs' = <<[op |-> "wheel", re |-> callResult[1].offsetX,
                      im |-> callResult[1].offsetY]>>
    /\ callResult' = <<[callResult[1] EXCEPT
                          !.n = IF up THEN @ + 1 ELSE IF @ = 0 THEN 0 ELSE @ - 1]>>
    /\ ZoomUnchanged

PanNext ==
    \/ \E p \in PanPixels : PanClick(p[1], p[2])
    \/ \E re \in PanRequests : \E im \in PanRequests : PanGo(re, im)
    \/ PanReset
    \/ \E up \in BOOLEAN : PanWheel(up)

SpecPan == PanInit /\ [][PanNext]_vars

\* --------------------------------------------- processMandelbrot on a grid

\* The points c are multiples of 1 / GridDen in both coordinates. With
\* GridDen = 4 every value of lines 62-83 is a multiple of 2^-16 of a few
\* bits, so the long double arithmetic is exact and the numerators below are
\* the values themselves.
GridDen == 4

PERIODICITY_ITERATION == 20

BLACK == [name |-> "BLACK", i |-> 0, max |-> 0]

colourGradient(i, maxIter) == [name |-> "gradient", i |-> i, max |-> maxIter]

Max(a, b) == IF a > b THEN a ELSE b

\* Complex(): z_0 = 0, as numerators over a denominator.
ComplexZero == [re |-> 0, im |-> 0, den |-> 1]

\* Variants: a cardioid test that never holds, a bulb test that never holds.
InMainCardioidNever(c) == FALSE

\* q * (q + reMinusQuarter) <= 0.25 * imSquared, all terms times GridDen^4.
InMainCardioid(c) ==
    LET reMinusQuarter == c.re - GridDen \div 4
        imSquared == c.im * c.im
        q == reMinusQuarter * reMinusQuarter + imSquared
    IN  q * (q + reMinusQuarter * GridDen) <= ((GridDen * GridDen) \div 4) * imSquared

\* rePlusOne * rePlusOne + imSquared <= 0.0625, all terms times GridDen^2.
InPeriod2Bulb(c) ==
    LET rePlusOne == c.re + GridDen
        imSquared == c.im * c.im
    IN  rePlusOne * rePlusOne + imSquared <= (GridDen * GridDen) \div 16

\* The same value over the smallest power-of-two denominator.
RECURSIVE Reduced(_)
Reduced(z) ==
    IF z.den > 1 /\ z.re % 2 = 0 /\ z.im % 2 = 0
    THEN Reduced([re |-> z.re \div 2, im |-> z.im \div 2, den |-> z.den \div 2])
    ELSE z

\* z * z + c (complex.cpp 23-25), over the common denominator.
SquarePlus(z, c) ==
    LET den == Max(z.den * z.den, GridDen)
        s == den \div (z.den * z.den)
        t == den \div GridDen
    IN  Reduced([re |-> (z.re * z.re - z.im * z.im) * s + c.re * t,
                 im |-> (z.re * z.im + z.im * z.re) * s + c.im * t,
                 den |-> den])

\* Variant: the escape test includes the circle of radius 2.
EscapedInclusive(z) == z.re * z.re + z.im * z.im >= 4 * z.den * z.den

\* Complex::magSq(z) > 4.0
Escaped(z) == z.re * z.re + z.im * z.im > 4 * z.den * z.den

\* x < PERIODICITY_EPSILON for a value x >= 0 of the grid: the non-zero ones
\* are at least 2^-16, far above 1e-8.
BelowEpsilon(num) == num = 0

\* checkPeriodicity(z, prevZ): the difference, the dot product less 1, and
\* the cross product, as numerators over z.den * prevZ.den.
checkPeriodicity(z, prevZ) ==
    LET dRe == z.re * prevZ.den - prevZ.re * z.den
        dIm == z.im * prevZ.den - prevZ.im * z.den
        dot == z.re * prevZ.re + z.im * prevZ.im
        cross == z.re * prevZ.im - z.im * prevZ.re
    IN  /\ BelowEpsilon(dRe * dRe + dIm * dIm)
        /\ BelowEpsilon(Abs(dot - z.den * prevZ.den))
        /\ BelowEpsilon(Abs(cross))

\* The loop of lines 76-90 from iteration i on; `iterations` counts the
\* executions of z = z * z + c.
RECURSIVE MandelbrotLoop(_, _, _, _, _)
MandelbrotLoop(c, z, prevZ, i, maxIter) ==
    IF i >= maxIter THEN [colour |-> BLACK, iterations |-> i]
    ELSE LET zn == SquarePlus(z, c)
         IN  IF Escaped(zn)
                 THEN [colour |-> colourGradient(i, maxIter), iterations |-> i + 1]
             ELSE IF i % PERIODICITY_ITERATION = 0
                 THEN IF checkPeriodicity(zn, prevZ)
                          THEN [colour |-> BLACK, iterations |-> i + 1]
                      ELSE MandelbrotLoop(c, zn, zn, i + 1, maxIter)
             ELSE MandelbrotLoop(c, zn, prevZ, i + 1, maxIter)

processMandelbrot(c, maxIter) ==
    IF InMainCardioid(c) THEN [colour |-> BLACK, iterations |-> 0]
    ELSE IF InPeriod2Bulb(c) THEN [colour |-> BLACK, iterations |-> 0]
    ELSE MandelbrotLoop(c, ComplexZero, ComplexZero, 0, maxIter)

\* Points of the grid in and around the set: -2.25 <= Re c <= 2, |Im c| <= 2.
MandelPoints == [re : -9..8, im : -8..8]

\* Iteration budgets: the exact arithmetic above holds for up to 3 iterations.
MandelBudgets == {0, 1, 2, 3}

MandelInit ==
    /\ RendererInit
    /\ ciArgs = <<>>
    /\ ciResult = <<>>
    /\ callArgs \in {<<c, n>> : c \in MandelPoints, n \in MandelBudgets}
    /\ callResult = <<>>

MandelCall ==
    /\ callResult = <<>>
    /\ callResult' = <<processMandelbrot(callArgs[1], callArgs[2])>>
    /\ UNCHANGED <<mainpc, fullRender, intents, intentLimit, viewVars, curMaxIterations,
                   isRecalculatingFractal, cancelRender, renderingTask, renderMutex,
                   pixelDataBuffer, renderProgress, renderMaxProgress, textureVars,
                   jobVars, histVars, ciArgs, ciResult, callArgs, ghostVars,
                   overlayVars>>

MandelNext == MandelCall

SpecMandel == MandelInit /\ [][MandelNext]_vars

\* ------------------ Tricorn, Burning Ship and the trajectories on the grid

\* Complex::conj (complex.cpp 73-75), for a point of the plane and for c.
conj(z) == [z EXCEPT !.im = -z.im]

\* The unqualified abs(long double) of lines 156-157 and 183-184: the
\* floating-point overload where <cmath> declares it in the global namespace,
\* else abs(int) of <cstdlib> applied to the value converted to int (the
\* fraction is discarded). The result as a numerator over den.
AbsBuilds == {"floating", "int"}

abs(num, den, build) ==
    IF build = "floating" THEN Abs(num) ELSE (Abs(num) \div den) * den

\* One step of the orbit: z*z + c, Conj(z)^2 + c, (|Re z| + i|Im z|)^2 + c.
OrbitStep(kind, z, c, build) ==
    CASE kind = "Mandelbrot" -> SquarePlus(z, c)
      [] kind = "Tricorn" -> SquarePlus(conj(z), c)
      [] kind = "BurningShip" ->
            SquarePlus([re |-> abs(z.re, z.den, build), im |-> abs(z.im, z.den, build),
                        den |-> z.den], c)

\* The loop of processTricorn (114-129) and of processBurningShip (155-172).
RECURSIVE EscapeLoop(_, _, _, _, _, _, _)
EscapeLoop(kind, c, z, prevZ, i, maxIter, build) ==
    IF i >= maxIter THEN [colour |-> BLACK, iterations |-> i]
    ELSE LET zn == OrbitStep(kind, z, c, build)
         IN  IF Escaped(zn)
                 THEN [colour |-> colourGradient(i, maxIter), iterations |-> i + 1]
             ELSE IF i % PERIODICITY_ITERATION = 0
                 THEN IF checkPeriodicity(zn, prevZ)
                          THEN [colour |-> BLACK, iterations |-> i + 1]
                      ELSE EscapeLoop(kind, c, zn, zn, i + 1, maxIter, build)
             ELSE EscapeLoop(kind, c, zn, prevZ, i + 1, maxIter, build)

processTricorn(c, maxIter) ==
    EscapeLoop("Tricorn", c, ComplexZero, ComplexZero, 0, maxIter, "floating")

\* processBurningShip: c is reflected in the real axis first (line 153).
processBurningShip(c, maxIter, build) ==
    EscapeLoop("BurningShip", conj(c), ComplexZero, ComplexZero, 0, maxIter, build)

\* The loops of calcTrajectoryMandelbrot (99-105), calcTrajectoryTricorn
\* (138-146) and calcTrajectoryBurningShip (182-192): the point pushed is z,
\* for the Burning Ship Complex::conj(z).
RECURSIVE TrajectoryLoop(_, _, _, _, _, _, _)
TrajectoryLoop(kind, c, z, i, maxIter, build, trajectory) ==
    IF i >= maxIter THEN trajectory
    ELSE LET zn == OrbitStep(kind, z, c, build)
             pushed == Append(trajectory, IF kind = "BurningShip" THEN conj(zn) ELSE zn)
         IN  IF Escaped(zn) THEN pushed
             ELSE TrajectoryLoop(kind, c, zn, i + 1, maxIter, build, pushed)

calcTrajectoryMandelbrot(c, maxIter) ==
    TrajectoryLoop("Mandelbrot", c, ComplexZero, 0, maxIter, "floating", <<>>)

\* Variant: the first point of the orbit is not recorded.
calcTrajectoryTricornNoFirst(c, maxIter) ==
    LET t == TrajectoryLoop("Tricorn", c, ComplexZero, 0, maxIter, "floating", <<>>)
    IN  IF t = <<>> THEN t ELSE Tail(t)

calcTrajectoryTricorn(c, maxIter) ==
    TrajectoryLoop("Tricorn", c, ComplexZero, 0, maxIter, "floating", <<>>)

\* Variant: the points are returned as the loop holds them, not conjugated.
calcTrajectoryBurningShipPlain(c, maxIter, build) ==
    LET t == TrajectoryLoop("BurningShip", conj(c), ComplexZero, 0, maxIter, build, <<>>)
    IN  [k \in DOMAIN t |-> conj(t[k])]

calcTrajectoryBurningShip(c, maxIter, build) ==
    TrajectoryLoop("BurningShip", conj(c), ComplexZero, 0, maxIter, build, <<>>)

\* fractalOptions[].func and fractalOptions[].trajectoryFunc by name.
Evaluate(kind, c, maxIter, build) ==
    CASE kind = "Mandelbrot" -> processMandelbrot(c, maxIter)
      [] kind = "Tricorn" -> processTricorn(c, maxIter)
      [] kind = "BurningShip" -> processBurningShip(c, maxIter, build)

Trajectory(kind, c, maxIter, build) ==
    CASE kind = "Mandelbrot" -> calcTrajectoryMandelbrot(c, maxIter)
      [] kind = "Tricorn" -> calcTrajectoryTricorn(c, maxIter)
      [] kind = "BurningShip" -> calcTrajectoryBurningShip(c, maxIter, build)

EscapeKinds == {"Mandelbrot", "Tricorn", "BurningShip"}

\* Points with whole coordinates: their orbits have whole coordinates too, so
\* the arithmetic stays exact for any number of iterations.
WholePoints == {c \in MandelPoints : c.re % GridDen = 0 /\ c.im % GridDen = 0}

\* Budgets that reach the periodicity checks at i = 20 and i = 40.
LongBudgets == {21, 45}

\* <<kind, c, maxIterations, build>>: grid points with short budgets, whole
\* points with long ones; the build matters to the Burning Ship only.
EvalInputs ==
    {a \in EscapeKinds \X MandelPoints \X (MandelBudgets \cup LongBudgets) \X AbsBuilds :
        /\ a[3] \in LongBudgets => a[2] \in WholePoints
        /\ a[1] # "BurningShip" => a[4] = "floating"}

EvalInit ==
    /\ RendererInit
    /\ ciArgs = <<>>
    /\ ciResult = <<>>
    /\ callArgs \in EvalInputs
    /\ callResult = <<>>

\* One point handed to the evaluator and to the trajectory function.
EvalCall ==
    /\ callResult = <<>>
    /\ callResult' = <<Evaluate(callArgs[1], callArgs[2], callArgs[3], callArgs[4]),
                       Trajectory(callArgs[1], callArgs[2], callArgs[3], callArgs[4])>>
    /\ UNCHANGED <<mainpc, fullRender, intents, intentLimit, viewVars, curMaxIterations,
                   isRecalculatingFractal, cancelRender, renderingTask, renderMutex,
                   pixelDataBuffer, renderProgress, renderMaxProgress, textureVars,
                   jobVars, histVars, ciArgs, ciResult, callArgs, ghostVars,
                   overlayVars>>

EvalNext == EvalCall

SpecEval == EvalInit /\ [][EvalNext]_vars

\* ------------------------------------------ the Newton fractal on the grid

\* The values of one Newton step from a grid point are fractions; they are
\* kept exact as numerators over a common positive denominator. The long
\* double results differ from them by rounding in the last bits only.
RECURSIVE GCD(_, _)
GCD(a, b) == IF b = 0 THEN a ELSE GCD(b, a % b)

\* A value that is not a number (the result of 0 / 0): denominator 0.
NaN == [re |-> 0, im |-> 0, den |-> 0]

IsNaN(z) == z.den = 0

Lowest(z) ==
    LET g == GCD(GCD(Abs(z.re), Abs(z.im)), z.den)
    IN  [re |-> z.re \div g, im |-> z.im \div g, den |-> z.den \div g]

\* Complex::operator* (complex.cpp 23-25)
ComplexTimes(z, w) ==
    IF IsNaN(z) \/ IsNaN(w) THEN NaN
    ELSE Lowest([re |-> z.re * w.re - z.im * w.im,
                 im |-> z.re * w.im + z.im * w.re,
                 den |-> z.den * w.den])

\* Complex::operator-(const Complex&) (complex.cpp 19-21)
ComplexMinus(z, w) ==
    IF IsNaN(z) \/ IsNaN(w) THEN NaN
    ELSE Lowest([re |-> z.re * w.den - w.re * z.den,
                 im |-> z.im * w.den - w.im * z.den,
                 den |-> z.den * w.den])

\* Complex::operator-(long double) and operator*(long double) (complex.cpp 62-63)
MinusScalar(z, k) == IF IsNaN(z) THEN NaN ELSE [z EXCEPT !.re = z.re - k * z.den]

TimesScalar(z, k) == IF IsNaN(z) THEN NaN ELSE Lowest([z EXCEPT !.re = k * z.re, !.im = k * z.im])

\* Complex::operator/ (complex.cpp 27-30): both parts are divided by
\* denom = w.re^2 + w.im^2; with w = 0 each is 0 / 0.
ComplexOver(z, w) ==
    IF IsNaN(z) \/ IsNaN(w) THEN NaN
    ELSE LET denom == w.re * w.re + w.im * w.im
         IN  IF denom = 0 THEN NaN
             ELSE Lowest([re |-> (z.re * w.re + z.im * w.im) * w.den,
                          im |-> (z.im * w.re - z.re * w.im) * w.den,
                          den |-> z.den * denom])

\* The divisor of a division is zero.
ZeroDivisor(w) == ~IsNaN(w) /\ w.re = 0 /\ w.im = 0

\* Lengths are compared in units of 10^-7.
UnitsPerOne == 10000000

UnitDigits == 7

RECURSIVE Power10(_)
Power10(n) == IF n = 0 THEN 1 ELSE 10 * Power10(n - 1)

\* floor(r * 10^digits / den) for 0 <= r < den, digit by digit, and what is
\* left of r after these digits.
RECURSIVE FractionDigits(_, _, _)
FractionDigits(r, den, digits) ==
    IF digits = 0 THEN 0
    ELSE LET d == (r * 10) \div den
         IN  d * Power10(digits - 1) + FractionDigits(r * 10 - d * den, den, digits - 1)

RECURSIVE FractionRest(_, _, _)
FractionRest(r, den, digits) ==
    IF digits = 0 THEN r
    ELSE FractionRest(r * 10 - ((r * 10) \div den) * den, den, digits - 1)

\* floor(num / den) in units (values beyond +-100 count as +-100: they are
\* compared with lengths of at most 2), and whether num / den is a whole
\* number of units.
FloorUnits(num, den) ==
    LET q == num \div den
    IN  IF q >= 100 THEN 100 * UnitsPerOne
        ELSE IF q < -100 THEN -100 * UnitsPerOne
        ELSE q * UnitsPerOne + FractionDigits(num - q * den, den, UnitDigits)

WholeUnits(num, den) == FractionRest(num - (num \div den) * den, den, UnitDigits) = 0

\* |num / den - root| < bound, root and bound in units. Exact when the root
\* is a whole number of units; sqrt(3)/2 is 8660254.04 units.
Within(num, den, root, bound) ==
    LET f == FloorUnits(num, den)
    IN  \/ (f > root - bound /\ f < root + bound)
        \/ (f = root - bound /\ ~WholeUnits(num, den))

\* NEWTON_FRACTAL_EPSILON = 1e-6
NEWTON_FRACTAL_EPSILON == 10

\* NEWTON_FRACTAL_ROOTS[j] (lines 10-14), in units.
NEWTON_FRACTAL_ROOTS ==
    <<[re |-> UnitsPerOne, im |-> 0],
      [re |-> -(UnitsPerOne \div 2), im |-> 8660254],
      [re |-> -(UnitsPerOne \div 2), im |-> -8660254]>>

\* NEWTON_FRACTAL_COLOURS[j] (lines 15-19)
NEWTON_FRACTAL_COLOURS ==
    <<[name |-> "RED", i |-> 0, max |-> 0],
      [name |-> "GREEN", i |-> 0, max |-> 0],
      [name |-> "BLUE", i |-> 0, max |-> 0]>>

\* abs(diff) < NEWTON_FRACTAL_EPSILON of line 210 for diff = num / den - root.
\* With the floating-point abs it is |diff| < 1e-6, and false for a NaN.
\* With abs(int) the difference is converted to int first, so it is
\* |diff| < 1; the conversion of a NaN is undefined and `undefinedLess` is
\* what the comparison then yields.
AbsBelowEpsilon(num, den, root, build, undefinedLess) ==
    IF den = 0 THEN (build = "int" /\ undefinedLess)
    ELSE IF build = "floating" THEN Within(num, den, root, NEWTON_FRACTAL_EPSILON)
    ELSE Within(num, den, root, UnitsPerOne)

\* Lines 207-212: the first root j both parts of z are close to, 0 for none.
ReachedRoot(z, build, undefinedLess) ==
    LET near(j) == /\ AbsBelowEpsilon(z.re, z.den, NEWTON_FRACTAL_ROOTS[j].re, build, undefinedLess)
                   /\ AbsBelowEpsilon(z.im, z.den, NEWTON_FRACTAL_ROOTS[j].im, build, undefinedLess)
    IN  IF near(1) THEN 1 ELSE IF near(2) THEN 2 ELSE IF near(3) THEN 3 ELSE 0

\* f(z) = z^3 - 1 and f'(z) = 3 z^2 (lines 199-202, 223-226)
NewtonF(z) == MinusScalar(ComplexTimes(ComplexTimes(z, z), z), 1)

NewtonFPrime(z) == TimesScalar(ComplexTimes(z, z), 3)

\* z - f(z) / f'(z) (lines 204, 232)
NewtonStep(z) == ComplexMinus(z, ComplexOver(NewtonF(z), NewtonFPrime(z)))

\* The loop of processNewtonFractal (198-213); zeroDivisor records that
\* operator/ was called with the divisor 0.
RECURSIVE NewtonLoop(_, _, _, _, _, _)
NewtonLoop(z, i, maxIter, build, undefinedLess, zeroDivisor) ==
    IF i >= maxIter THEN [colour |-> BLACK, iterations |-> i, zeroDivisor |-> zeroDivisor]
    ELSE LET zn == NewtonStep(z)
             divided == zeroDivisor \/ ZeroDivisor(NewtonFPrime(z))
             j == ReachedRoot(zn, build, undefinedLess)
         IN  IF j # 0
             THEN [colour |-> NEWTON_FRACTAL_COLOURS[j], iterations |-> i + 1,
                   zeroDivisor |-> divided]
             ELSE NewtonLoop(zn, i + 1, maxIter, build, undefinedLess, divided)

processNewtonFractal(z, maxIter, build, undefinedLess) ==
    NewtonLoop(z, 0, maxIter, build, undefinedLess, FALSE)

\* Complex::magSq(fz) < NEWTON_FRACTAL_EPSILON (line 229): false for a NaN.
ConvergedF(fz) ==
    /\ ~IsNaN(fz)
    /\ Within(fz.re * fz.re + fz.im * fz.im, fz.den * fz.den, 0, NEWTON_FRACTAL_EPSILON)

\* The loop of calcTrajectoryNewtonFractal (221-233).
RECURSIVE NewtonTrajectoryLoop(_, _, _, _, _)
NewtonTrajectoryLoop(z, i, maxIter, trajectory, zeroDivisor) ==
    IF i >= maxIter THEN [trajectory |-> trajectory, zeroDivisor |-> zeroDivisor]
    ELSE LET pushed == Append(trajectory, z)
         IN  IF ConvergedF(NewtonF(z))
             THEN [trajectory |-> pushed, zeroDivisor |-> zeroDivisor]
             ELSE NewtonTrajectoryLoop(NewtonStep(z), i + 1, maxIter, pushed,
                                       zeroDivisor \/ ZeroDivisor(NewtonFPrime(z)))

calcTrajectoryNewtonFractal(z, maxIter) ==
    NewtonTrajectoryLoop(z, 0, maxIter, <<>>, FALSE)

\* Start points: the grid with budgets 0 and 1, and with more iterations the
\* points whose iterates stay small fractions: 0 (not a number after one
\* step), 1 (a root) and -1/2 (one step away from the root 1).
NewtonExactPoints == {[re |-> 0, im |-> 0], [re |-> GridDen, im |-> 0],
                      [re |-> -(GridDen \div 2), im |-> 0]}

NewtonInputs ==
    {a \in MandelPoints \X MandelBudgets \X AbsBuilds :
        a[2] >= 2 => a[1] \in NewtonExactPoints}

NewtonInit ==
    /\ RendererInit
    /\ ciArgs = <<>>
    /\ ciResult = <<>>
    /\ callArgs \in NewtonInputs
    /\ callResult = <<>>

\* One start point handed to the evaluator and to the trajectory function.
NewtonCall ==
    /\ callResult = <<>>
    /\ \E undefinedLess \in BOOLEAN :
          callResult' =
              LET z == Lowest([re |-> callArgs[1].re, im |-> callArgs[1].im, den |-> GridDen])
              IN  <<processNewtonFractal(z, callArgs[2], callArgs[3], undefinedLess),
                    calcTrajectoryNewtonFractal(z, callArgs[2])>>
    /\ UNCHANGED <<mainpc, fullRender, intents, intentLimit, viewVars, curMaxIterations,
                   isRecalculatingFractal, cancelRender, renderingTask, renderMutex,
                   pixelDataBuffer, renderProgress, renderMaxProgress, textureVars,
                   jobVars, histVars, ciArgs, ciResult, callArgs, ghostVars,
                   overlayVars>>

NewtonNext == NewtonCall

SpecNewton == NewtonInit /\ [][NewtonNext]_vars

\* ------------------------------------ the column partition on its inputs

\* Render widths and worker counts (hardware_concurrency() >= 1), with more
\* workers than columns among them.
PartitionWidths == 0..12
PartitionWorkers == 1..14

PartitionInit ==
    /\ RendererInit
    /\ ciArgs = <<>>
    /\ ciResult = <<>>
    /\ callArgs \in PartitionWidths \X PartitionWorkers
    /\ callResult = <<>>

\* Lines 818-820: startX and endX of every worker i of the loop.
PartitionCall ==
    /\ callResult = <<>>
    /\ callResult' = <<[i \in 0..(callArgs[2] - 1) |->
                          [startX |-> StartX(i, callArgs[1], callArgs[2]),
                           endX |-> EndX(i, callArgs[1], callArgs[2])]]>>
    /\ UNCHANGED <<mainpc, fullRender, intents, intentLimit, viewVars, curMaxIterations,
                   isRecalculatingFractal, cancelRender, renderingTask, renderMutex,
                   pixelDataBuffer, renderProgress, renderMaxProgress, textureVars,
                   jobVars, histVars, ciArgs, ciResult, callArgs, ghostVars,
                   overlayVars>>

PartitionNext == PartitionCall

SpecPartition == PartitionInit /\ [][PartitionNext]_vars

\* ------------------------------- the job's start on any number of threads

\* Render widths, and the values std::thread::hardware_concurrency() can
\* return: 0 when the number is not computable, or the number of threads.
ConcurrencyWidths == 0..12
ConcurrencyValues == 0..14

ConcurrencyInit ==
    /\ RendererInit
    /\ ciArgs = <<>>
    /\ ciResult = <<>>
    /\ callArgs \in ConcurrencyWidths \X ConcurrencyValues
    /\ callResult = <<>>

ConcurrencyUnchanged ==
    UNCHANGED <<mainpc, fullRender, intents, intentLimit, viewVars, curMaxIterations,
                isRecalculatingFractal, cancelRender, renderingTask, renderMutex,
                pixelDataBuffer, renderProgress, renderMaxProgress, textureVars,
                jobVars, histVars, ciArgs, ciResult, callArgs, ghostVars,
                overlayVars>>

\* Lines 804-806: numThreads = hardware_concurrency() and
\* sectionWidth = renderWidth / numThreads. The division of an int by 0 is
\* undefined: the process is stopped by the trap of the division, or the job
\* goes on with some value.
TaskSectionWidth ==
    /\ callResult = <<>>
    /\ \E outcome \in
            IF callArgs[2] = 0
            THEN {[pc |-> "trapped", sectionWidth |-> 0]}
                 \cup {[pc |-> "section", sectionWidth |-> v] : v \in {0, callArgs[1]}}
            ELSE {[pc |-> "section",
                   sectionWidth |-> SectionWidth(callArgs[1], callArgs[2])]} :
          callResult' = <<[pc |-> outcome.pc, numThreads |-> callArgs[2],
                           sectionWidth |-> outcome.sectionWidth, threads |-> <<>>]>>
    /\ ConcurrencyUnchanged

\* Lines 817-821: the loop creates a worker for every i < numThreads, with its
\* columns [startX, endX).
TaskCreateWorkers ==
    /\ callResult # <<>>
    /\ callResult[1].pc = "section"
    /\ callResult' =
          <<[callResult[1] EXCEPT
                !.pc = "created",
                !.threads =
                    [k \in 1..callResult[1].numThreads |->
                        [startX |-> (k - 1) * callResult[1].sectionWidth,
                         endX |-> IF k = callResult[1].numThreads THEN callArgs[1]
                                  ELSE k * callResult[1].sectionWidth]]]>>
    /\ ConcurrencyUnchanged

\* Lines 841-843: the workers are joined; their columns are computed.
TaskJoinWorkers ==
    /\ callResult # <<>>
    /\ callResult[1].pc = "created"
    /\ callResult' = <<[callResult[1] EXCEPT !.pc = "joined"]>>
    /\ ConcurrencyUnchanged

ConcurrencyNext ==
    \/ TaskSectionWidth
    \/ TaskCreateWorkers
    \/ TaskJoinWorkers

SpecConcurrency == ConcurrencyInit /\ [][ConcurrencyNext]_vars

\* ================================================================== claims

EarlyCancel == {"start", "join", "check"}
BeforeSwap == {"start", "join", "check", "lock", "copy", "swap"}
InCriticalSection == {"copy", "swap", "unlock"}
Running == {"check", "write", "incr"}

FrameData == textures[fractalTexture].data

\* C1: at most one job's workers write to pixelDataBuffer at any time: once a
\* job has been launched, every worker of every earlier job has returned.
C1_OneJobWrites ==
    \A j \in Jobs : \A k \in Jobs :
        (k < j /\ task[j].pc # "none") =>
            \A i \in Threads : workers[k][i].pc \notin Running

\* C1 witness: a later job's worker is running after the earlier job was
\* cancelled while its workers were still being joined.
C1_Witness ==
    \E j \in Jobs : /\ j > 1
                    /\ cancelAt[j - 1] = "join"
                    /\ \E i \in Threads : workers[j][i].pc \in Running

\* C2: the displayed texture holds, in every slot of the frame of the job that
\* swapped it in, a pixel written by a worker of that job.
C2_FrameFromOneJob ==
    fractalTexture # 0 =>
        /\ displayedBy \in Jobs
        /\ textures[fractalTexture].state = "live"
        /\ Len(FrameData) = task[displayedBy].renderWidth * task[displayedBy].renderHeight
        /\ Len(FrameData) > 0
        /\ \A s \in 1..Len(FrameData) : FrameData[s].job = displayedBy

\* C2 witness: a job swapped its frame in after the job before it was cancelled
\* with workers still running (so the buffer held that job's partial output).
C2_Witness ==
    /\ displayedBy > 1
    /\ cancelAt[displayedBy - 1] = "join"
    /\ fractalTexture = displayedBy

\* C3 as claimed: a job for which cancelRender was set at any moment before
\* its texture swap never swaps.
C3_NoSwapAfterCancel ==
    \A j \in Jobs : cancelAt[j] \in BeforeSwap => j \notin swapped

\* C3 amended: a job for which cancelRender was set before its task tested the
\* flag after joining its workers (line 848) never swaps, and its task goes no
\* further than that test.
C3_NoSwapAfterEarlyCancel ==
    \A j \in Jobs : cancelAt[j] \in EarlyCancel =>
        /\ j \notin swapped
        /\ task[j].pc \in EarlyCancel \cup {"done"}

\* C3 witness: a cancelled job has ended without swapping.
C3_Witness ==
    \E j \in Jobs : /\ cancelAt[j] \in EarlyCancel
                    /\ task[j].pc = "done"
                    /\ j \notin swapped
                    /\ fractalTexture # j

\* C4: all pixels of a published frame are computed from one and the same
\* viewport values (no worker saw a handler's later mutation).
C4_FrameFromOneSnapshot ==
    fractalTexture # 0 =>
        \A s \in 1..Len(FrameData) : \A t \in 1..Len(FrameData) :
            FrameData[s].view = FrameData[t].view

\* C6: fractalTexture is never read by the interaction thread (renderFrame,
\* export on the S key) while a completing job is inside the locked section
\* that swaps it.
C6_TextureReadUnderLock ==
    mainpc \in {"rf_copy", "save"} =>
        \A j \in Jobs : task[j].pc \notin InCriticalSection

\* Columns a worker of job j has counted in renderProgress.
CountedColumns(j) ==
    {ic \in Threads \X (0..(task[j].renderWidth - 1)) :
        /\ StartX(ic[1], task[j].renderWidth, NumThreads) <= ic[2]
        /\ ic[2] < workers[j][ic[1]].x}

ColumnWritten(j, c) ==
    \A y \in 0..(task[j].renderHeight - 1) :
        pixelDataBuffer[y * task[j].renderWidth + c + 1].job = j

ProgressInv ==
    /\ renderProgress <= renderMaxProgress
    /\ numJobs > 0 =>
         LET j == numJobs
         IN  /\ renderMaxProgress = task[j].renderWidth
             /\ renderMaxProgress > 0
             /\ task[j].pc = "start" => renderProgress = 0
             /\ task[j].pc \in {"join", "check"} =>
                   /\ renderProgress = Cardinality(CountedColumns(j))
                   /\ \A ic \in CountedColumns(j) : ColumnWritten(j, ic[2])
             /\ (task[j].pc \in {"lock", "copy", "swap", "unlock", "flag"} \/ j \in swapped) =>
                   renderProgress = renderMaxProgress

ProgressStep ==
    numJobs' = numJobs =>
        /\ renderProgress' >= renderProgress
        /\ renderProgress' <= renderProgress + 1

\* C7: within one job renderProgress starts at 0, never decreases, counts
\* exactly the columns whose every row the job has written, never exceeds
\* renderMaxProgress (the render width, positive) and equals it when the job
\* completes.
C7_Progress == []ProgressInv /\ [][ProgressStep]_vars

\* C7 witness: a job after a cancelled one is about to swap with full progress.
C7_Witness ==
    /\ numJobs > 1
    /\ cancelAt[numJobs - 1] = "join"
    /\ task[numJobs].pc = "swap"
    /\ renderProgress = renderMaxProgress
    /\ renderProgress > 1

\* C9: whenever the interaction thread is blocked on renderingTask (dispatch,
\* destructor), cancelRender is set.
C9_WaitOnlyAfterCancel ==
    (mainpc \in {"b_wait", "b_assign", "dtor_wait"} /\ ~TaskEnded(renderingTask)) =>
        cancelRender

\* calculateIterations's result r, an int, lies in [1, cap].
InBudgetRange(r, cap) == r >= 1 /\ ~U32Less(cap, U32Of(r))

CancelledWorkerStep(j, i) ==
    LET pc == workers[j][i].pc
        pcNext == workers'[j][i].pc
    IN  (cancelRender /\ pc \in Running) =>
            /\ pc = "check" => pcNext \in {"check", "done"}
            /\ pc = "write" => pcNext \in {"write", "check", "incr"}
            /\ pc = "incr" => pcNext \in {"incr", "check", "done"}
            /\ pc = "check" => workers'[j][i].x = workers[j][i].x
            /\ (pcNext = "check" /\ pc # "check") => cancelRender'

\* C5 as claimed: once cancelRender is set, no task publishes.
C5_NoPublishOnceSet == [][cancelRender => swapped' = swapped]_vars

\* C5 amended: once cancelRender is set, every running worker tests it before
\* its next pixel and returns (writing at most the pixel it had computed); if
\* the flag was set before the task's test after the join, the task ends
\* without publishing; and the waiting beginAsyncRendering call unblocks.
C5_CancellationBounded ==
    /\ [][\A j \in Jobs : \A i \in Threads : CancelledWorkerStep(j, i)]_vars
    /\ \A j \in Jobs :
          (cancelRender /\ numJobs = j /\ task[j].pc \in EarlyCancel)
              ~> (task[j].pc = "done" /\ j \notin swapped /\ mainpc = "b_reset")
    /\ (mainpc = "b_wait") ~> (mainpc = "b_reset")

\* C5 witness: under a set flag a worker has returned before the end of its
\* slice while the task is still joining.
C5_Witness ==
    \E j \in Jobs : \E i \in Threads :
        /\ cancelRender
        /\ mainpc = "b_wait"
        /\ task[j].pc = "join"
        /\ workers[j][i].pc = "done"
        /\ workers[j][i].x < EndX(i, task[j].renderWidth, NumThreads)

\* The iteration budget a job dispatched now would use.
LatestBudget ==
    IF task[numJobs].fullRender THEN maxIterations
    ELSE calculateIterations(U32Of(numZooms), U32Of(INITIAL_ITERATIONS),
                             U32Of(ITERATION_INCREMENT), U32Of(maxIterations))

\* The latest job has completed and its frame is the displayed one, computed
\* from the current viewport, fractal and resolution.
Completed ==
    /\ numJobs > 0
    /\ task[numJobs].pc = "done"
    /\ \A i \in Threads : workers[numJobs][i].pc = "done"
    /\ numJobs \in swapped
    /\ ~isRecalculatingFractal
    /\ fractalTexture = numJobs
    /\ textures[fractalTexture].state = "live"
    /\ Len(FrameData) = RenderLength(winWidth, curResolutionIdx)
                          * RenderLength(winHeight, curResolutionIdx)
    /\ \A s \in 1..Len(FrameData) :
          FrameData[s] = [job |-> numJobs, func |-> curFractalIdx, res |-> curResolutionIdx,
                          view |-> <<winWidth, winHeight, numZooms, offsetX, offsetY,
                                     LatestBudget>>,
                          at |-> <<(s - 1) % RenderLength(winWidth, curResolutionIdx),
                                   (s - 1) \div RenderLength(winWidth, curResolutionIdx)>>]

C11_BudgetMonotone ==
    ciResult # <<>> => ciResult[1] <= ciResult[2]

BudgetRange == 1..MAX_ITERATIONS_LIMIT

\* The budget of a job started now, in unbounded integer arithmetic.
StartedBudget(j) ==
    IF task[j].fullRender THEN maxIterations
    ELSE Clamp(numZooms * ITERATION_INCREMENT + INITIAL_ITERATIONS, 1, maxIterations)

BudgetInv ==
    /\ maxIterations \in BudgetRange
    /\ \A j \in Jobs : task[j].pc \notin {"none", "start"} => curMaxIterations \in BudgetRange
    /\ \A s \in 1..Len(pixelDataBuffer) :
          pixelDataBuffer[s].job # 0 => pixelDataBuffer[s].view[6] \in BudgetRange

BudgetStep ==
    /\ maxIterations' # maxIterations =>
          \E input \in IterationInputs :
              input > 0 /\ maxIterations' = Clamp(input, 1, MAX_ITERATIONS_LIMIT)
    /\ curMaxIterations' # curMaxIterations =>
          \E j \in Jobs : /\ task[j].pc = "start"
                          /\ curMaxIterations' = StartedBudget(j)

\* C12: maxIterations stays in [1, 10000] under Set requests (non-positive
\* inputs ignored, larger ones clamped), and the budget curMaxIterations of
\* every job is maxIterations for a full render and
\* clamp(numZooms * 40 + 96, 1, maxIterations) otherwise, hence in [1, 10000].
C12_BudgetBounded == []BudgetInv /\ [][BudgetStep]_vars

\* C12 witness: a Set request above the limit was clamped and the job
\* dispatched for it has published a frame computed with a budget in range.
C12_Witness ==
    /\ maxIterations = MAX_ITERATIONS_LIMIT
    /\ fractalTexture = MaxJobs
    /\ FrameData[1].job = MaxJobs
    /\ FrameData[1].view[6] = INITIAL_ITERATIONS

\* A step that handles a zoom request below the minimum: a wheel-down at
\* zoom 1, or the Go control with a negative power.
RejectedZoomStep ==
    /\ intents' = intents + 1
    /\ lastIntent' \in {"WheelBelowMinimum", "GoBelowMinimum"}

\* C13: a zoom request below the minimum zoom level changes nothing (zoom
\* count, offset, plane size) and dispatches no job, whether it comes from the
\* wheel or from the Go control.
C13_ZoomBelowMinimumRejected ==
    [][RejectedZoomStep => (UNCHANGED viewVars /\ mainpc' = mainpc)]_vars

FailureStep ==
    \/ BeginSetupFails
    \/ \E j \in Jobs : TaskStartFails(j)
    \/ \E j \in Jobs : TaskCopyFails(j)

DisplayedFrameIntact ==
    /\ \A j \in failed : j \notin swapped /\ fractalTexture # j
    /\ fractalTexture # 0 =>
          /\ displayedBy \in swapped \ failed
          /\ textures[fractalTexture].state = "live"
          /\ Len(FrameData) = task[displayedBy].renderWidth * task[displayedBy].renderHeight
          /\ \A s \in 1..Len(FrameData) : FrameData[s].job = displayedBy

\* C15: a resource failure of a job (texture creation, pixel format, texture
\* lock) leaves the previous frame displayed: the failing step changes neither
\* fractalTexture nor the texture it refers to, a failed job never publishes,
\* and the displayed texture is always the complete frame of the job that
\* swapped it in.
C15_FailureKeepsFrame ==
    /\ []DisplayedFrameIntact
    /\ [][FailureStep => /\ fractalTexture' = fractalTexture
                         /\ fractalTexture # 0 =>
                               textures'[fractalTexture] = textures[fractalTexture]
                         /\ swapped' = swapped]_vars

\* C15 witness: a job's task returned on a failure while the frame of an
\* earlier job is displayed.
C15_Witness ==
    \E j \in failed : /\ task[j].pc = "done"
                      /\ fractalTexture # 0
                      /\ displayedBy < j
                      /\ textures[fractalTexture].state = "live"

\* The presented frame shows an overlay computed for another fractal than the
\* one active when it was presented.
StaleShown == shown.overlay # -1 /\ shown.overlay # shown.func

PresentStep == phase = "ui" /\ phase' = "events"

\* C16 as claimed: no presented frame shows an overlay computed for a fractal
\* that was no longer the active one.
C16_NoStaleOverlay == ~StaleShown

\* C16 amended: a presented frame shows an overlay of a previously active
\* fractal only if the fractal was switched by the selector combo while that
\* very frame was being composed; the next presented frame does not show it.
C16_StaleOverlayOnlyInComboFrame ==
    /\ [][(PresentStep /\ StaleShown') => lastIntent = "SelectFractalCombo"]_vars
    /\ [][(PresentStep /\ StaleShown) => ~StaleShown']_vars
    /\ [](phase = "ui" => frameOverlay \in {-1, trajectoryTexture})
    /\ []((phase = "ui" /\ frameOverlay # -1 /\ frameOverlay # curFractalIdx)
             => destroyTrajectory)

\* C16 witness: the frame composed during a combo selection was presented with
\* the old overlay, and run() has destroyed the overlay before the next frame.
C16_Witness ==
    /\ StaleShown
    /\ lastIntent = "SelectFractalCombo"
    /\ phase = "frame"
    /\ trajectoryTexture = -1

\* C17: a right-click trajectory request made while a render job is in flight
\* produces the overlay.
C17_TrajectoryDuringRender == rightClick.inFlight => rightClick.drawn

\* The buffer a job with the captured values of job j computes from the
\* viewport values v: slot y * renderWidth + x holds the colour of (x, y).
RenderedFrom(j, v) ==
    [s \in 1..(task[j].renderWidth * task[j].renderHeight) |->
        [job |-> j, func |-> task[j].func, res |-> task[j].res, view |-> v,
         at |-> <<(s - 1) % task[j].renderWidth, (s - 1) \div task[j].renderWidth>>]]

C19_RoundTripWithinOne ==
    callResult # <<>> =>
        /\ Abs(callResult[1][1] - callArgs[1].px) <= 1
        /\ Abs(callResult[1][2] - callArgs[1].py) <= 1

\* The two tests as the claim writes them, for c = (re + i im) / GridDen.
CardioidTest(c) ==
    LET q == (c.re - 1) * (c.re - 1) + c.im * c.im
    IN  q * (q + 4 * (c.re - 1)) <= 4 * c.im * c.im

BulbTest(c) == (c.re + 4) * (c.re + 4) + c.im * c.im <= 1

ShortCircuited(c) ==
    \/ CardioidTest(c)
    \/ BulbTest(c)
    \/ c = [re |-> 0, im |-> 0]
    \/ c = [re |-> -GridDen, im |-> 0]

\* C20: for every c that passes the main-cardioid test or the period-2 bulb
\* test, and in particular for c = 0 and c = -1, processMandelbrot returns the
\* interior colour without executing an iteration.
C20_ShortCircuit ==
    (callResult # <<>> /\ ShortCircuited(callArgs[1])) =>
        /\ callResult[1].colour = BLACK
        /\ callResult[1].iterations = 0

C20_Witness ==
    /\ callResult # <<>>
    /\ callArgs[1] = [re |-> 0, im |-> 0]
    /\ callArgs[2] = 3
    /\ callResult[1] = [colour |-> BLACK, iterations |-> 0]

\* The point the orbit of a kind starts from c with: the Burning Ship
\* iterates with the reflected c.
OrbitParameter(kind, c) == IF kind = "BurningShip" THEN conj(c) ELSE c

\* Smallest 0-based iteration index below maxIter at which the squared
\* magnitude of the orbit point exceeds 4, or -1 when there is none.
RECURSIVE FirstEscape(_, _, _, _, _, _)
FirstEscape(kind, c, z, i, maxIter, build) ==
    IF i >= maxIter THEN -1
    ELSE LET zn == OrbitStep(kind, z, c, build)
         IN  IF zn.re * zn.re + zn.im * zn.im > 4 * zn.den * zn.den THEN i
             ELSE FirstEscape(kind, c, zn, i + 1, maxIter, build)

EscapeIndex ==
    FirstEscape(callArgs[1], OrbitParameter(callArgs[1], callArgs[2]), ComplexZero, 0,
                callArgs[3], callArgs[4])

\* C21: the evaluators of Mandelbrot, Tricorn and Burning Ship return
\* colourGradient(i, maxIterations) for the smallest iteration index i at
\* which the squared magnitude exceeds 4 (i = 0 for c = 2 + 2i and a budget
\* of at least 1), and the interior colour when the orbit does not escape
\* within the budget.
C21_EscapeRule ==
    callResult # <<>> =>
        /\ callResult[1].colour = IF EscapeIndex >= 0
                                  THEN colourGradient(EscapeIndex, callArgs[3])
                                  ELSE BLACK
        /\ (callArgs[2] = [re |-> 2 * GridDen, im |-> 2 * GridDen] /\ callArgs[3] >= 1)
              => callResult[1].colour = colourGradient(0, callArgs[3])

C21_Witness ==
    /\ callResult # <<>>
    /\ callArgs[1] = "BurningShip"
    /\ callArgs[3] = 3
    /\ callResult[1].colour = colourGradient(1, 3)

\* The n-th point of the orbit of the call (n >= 1, z_0 = 0).
RECURSIVE OrbitPoint(_, _, _, _)
OrbitPoint(kind, c, n, build) ==
    IF n = 0 THEN ComplexZero
    ELSE OrbitStep(kind, OrbitPoint(kind, c, n - 1, build), c, build)

\* From its r-th point on the orbit of the call repeats with period 1 or 2
\* and no point up to there has escaped.
RepeatsFrom(r) ==
    LET kind == callArgs[1]
        c == OrbitParameter(kind, callArgs[2])
    IN  /\ FirstEscape(kind, c, ComplexZero, 0, r + 2, callArgs[4]) = -1
        /\ OrbitPoint(kind, c, r + 2, callArgs[4]) = OrbitPoint(kind, c, r, callArgs[4])

\* C22: an orbit that repeats exactly (a fixed point or a 2-cycle) from its
\* r-th point on is classified periodic: the evaluator returns the interior
\* colour no later than PERIODICITY_ITERATION iterations after the repetition
\* starts.
C22_PeriodicityDetected ==
    (callResult # <<>> /\ callArgs[3] \in LongBudgets) =>
        \A r \in 1..3 :
            (RepeatsFrom(r) /\ callArgs[3] >= r + PERIODICITY_ITERATION) =>
                /\ callResult[1].colour = BLACK
                /\ callResult[1].iterations <= r + PERIODICITY_ITERATION

\* The first root both of whose coordinate distances to z are below 1e-6,
\* 0 when there is none (a NaN is close to no root).
RootWithinEpsilon(z) ==
    LET close(j) ==
            /\ ~IsNaN(z)
            /\ Within(z.re, z.den, NEWTON_FRACTAL_ROOTS[j].re, NEWTON_FRACTAL_EPSILON)
            /\ Within(z.im, z.den, NEWTON_FRACTAL_ROOTS[j].im, NEWTON_FRACTAL_EPSILON)
    IN  IF close(1) THEN 1 ELSE IF close(2) THEN 2 ELSE IF close(3) THEN 3 ELSE 0

\* The colour the Newton evaluator is to return from z with maxIter - i steps left.
RECURSIVE NewtonColour(_, _, _)
NewtonColour(z, i, maxIter) ==
    IF i >= maxIter THEN BLACK
    ELSE LET zn == NewtonStep(z)
         IN  IF RootWithinEpsilon(zn) # 0 THEN NEWTON_FRACTAL_COLOURS[RootWithinEpsilon(zn)]
             ELSE NewtonColour(zn, i + 1, maxIter)

\* C23: processNewtonFractal returns the colour of the first root whose real
\* and imaginary distance to z are both below 1e-6 after a Newton step, and
\* the interior colour when no root is reached within the budget.
C23_NewtonRootColour ==
    callResult # <<>> =>
        callResult[1].colour =
            NewtonColour(Lowest([re |-> callArgs[1].re, im |-> callArgs[1].im, den |-> GridDen]),
                         0, callArgs[2])

\* C24: processNewtonFractal and calcTrajectoryNewtonFractal never call the
\* complex division with the divisor 3 z^2 = 0, for any start point.
C24_NoDivisionByZero ==
    callResult # <<>> =>
        /\ ~callResult[1].zeroDivisor
        /\ ~callResult[2].zeroDivisor

\* The squared magnitude of a trajectory point exceeds 4.
Outside(z) == z.re * z.re + z.im * z.im > 4 * z.den * z.den

\* C28: a trajectory of Mandelbrot, Tricorn or Burning Ship has at most
\* maxIterations points, none but the last one has a squared magnitude above
\* 4, it ends before the budget only at such a point, and when the evaluator
\* escapes at iteration i it has exactly i + 1 points.
C28_TrajectoryTruncated ==
    callResult # <<>> =>
        LET t == callResult[2]
        IN  /\ Len(t) <= callArgs[3]
            /\ \A k \in 1..(Len(t) - 1) : ~Outside(t[k])
            /\ Len(t) < callArgs[3] => (Len(t) > 0 /\ Outside(t[Len(t)]))
            /\ callResult[1].colour.name = "gradient" =>
                  (Len(t) = callResult[1].colour.i + 1 /\ Outside(t[Len(t)]))

C28_Witness ==
    /\ callResult # <<>>
    /\ callArgs[1] = "Tricorn"
    /\ callArgs[3] = 3
    /\ callResult[1].colour = colourGradient(1, 3)
    /\ Len(callResult[2]) = 2

\* The points the loop of the Burning Ship holds, from z_1 on, up to the
\* first one that has escaped or to the budget.
RECURSIVE InternalOrbit(_, _, _, _, _)
InternalOrbit(c, z, i, maxIter, build) ==
    IF i >= maxIter THEN <<>>
    ELSE LET zn == OrbitStep("BurningShip", z, c, build)
         IN  IF Outside(zn) THEN <<zn>>
             ELSE <<zn>> \o InternalOrbit(c, zn, i + 1, maxIter, build)

\* C29: calcTrajectoryBurningShip iterates with the conjugated c like
\* processBurningShip, returns the conjugate of every internal orbit point,
\* and stops at the first internal point that has escaped.
C29_BurningShipConjugated ==
    (callResult # <<>> /\ callArgs[1] = "BurningShip") =>
        LET orbit == InternalOrbit(conj(callArgs[2]), ComplexZero, 0, callArgs[3], callArgs[4])
            t == callResult[2]
        IN  /\ Len(t) = Len(orbit)
            /\ \A k \in 1..Len(t) : t[k] = [orbit[k] EXCEPT !.im = -orbit[k].im]
            /\ callResult[1].colour.name = "gradient" => Len(orbit) = callResult[1].colour.i + 1
            /\ callResult[1].colour = BLACK =>
                  (Len(orbit) >= callResult[1].iterations
                   /\ \A k \in 1..Len(orbit) : ~Outside(orbit[k]))

C29_Witness ==
    /\ callResult # <<>>
    /\ callArgs[1] = "BurningShip"
    /\ callArgs[3] = 3
    /\ Len(callResult[2]) = 3
    /\ callResult[2][1].im # 0
    /\ callResult[2][3].im # 0

\* C26: for every render width W >= 0 and worker count N >= 1 the column
\* ranges of the workers are contiguous, pairwise disjoint and cover exactly
\* 0..W-1: worker i < N-1 has [i*floor(W/N), (i+1)*floor(W/N)), the last one
\* the rest up to W, and every column belongs to exactly one worker.
C26_ColumnPartition ==
    callResult # <<>> =>
        LET W == callArgs[1]
            N == callArgs[2]
            range == callResult[1]
        IN  /\ range[0].startX = 0
            /\ range[N - 1].endX = W
            /\ \A i \in 0..(N - 1) : range[i].startX <= range[i].endX
            /\ \A i \in 0..(N - 2) :
                  /\ range[i].startX = i * (W \div N)
                  /\ range[i].endX = (i + 1) * (W \div N)
                  /\ range[i].endX = range[i + 1].startX
            /\ \A x \in 0..(W - 1) :
                  Cardinality({i \in 0..(N - 1) : range[i].startX <= x /\ x < range[i].endX}) = 1

C26_Witness ==
    /\ callResult # <<>>
    /\ callArgs = <<3, 5>>
    /\ callResult[1][4] = [startX |-> 0, endX |-> 3]

\* C27: screenToFractal maps a larger py to a strictly smaller imaginary
\* part and the centre pixel exactly to the pan offset, and fractalToScreen
\* uses the same sign convention (it maps the offset back to the centre).
C27_MappingConvention ==
    callResult # <<>> =>
        LET a == callArgs[1]
        IN  /\ callResult[2].im < callResult[1].im
            /\ 2 * a.px = a.win[1] => callResult[1].re = 0
            /\ 2 * a.py = a.win[2] => callResult[1].im = 0
            /\ (2 * a.px = a.win[1] /\ 2 * a.py = a.win[2]) =>
                  fractalToScreen(callResult[1], a.win[1], a.win[2], a.kx, a.ky,
                                  a.offsetX, a.offsetY) = <<a.px, a.py>>

\* The sample i of the trajectory lies in [0, winWidth] x [0, winHeight], so
\* clamping leaves its screen position as it is.
NotClamped(t, i, win, outcome) ==
    LET p == ScreenPoint(t[i], win, outcome)
    IN  p[1] \in 0..win[1] /\ p[2] \in 0..win[2]

RECURSIVE MarkersFrom(_, _, _, _)
MarkersFrom(t, i, win, outcome) ==
    IF i > Len(t) THEN <<>>
    ELSE (IF NotClamped(t, i, win, outcome)
          THEN <<PointRect(ScreenPoint(t[i], win, outcome)[1],
                           ScreenPoint(t[i], win, outcome)[2])>>
          ELSE <<>>) \o MarkersFrom(t, i + 1, win, outcome)

ResetStep == intents' = intents + 1 /\ lastIntent' = "Reset"

\* The view is the initial one: zoom 1 and offset (0, 0).
InitialView == numZooms = 0 /\ offsetX = 0 /\ offsetY = 0

\* C25: from a view that differs from the initial one, resetToInitialFractal
\* sets zoom 1, numZooms 0 and offset (0, 0), flags the trajectory overlay for
\* destruction and dispatches exactly one job; from the initial view it
\* changes nothing and dispatches no job, so a second reset is a no-op.
C25_ResetView ==
    [][ResetStep =>
          /\ InitialView'
          /\ ~InitialView =>
                /\ destroyTrajectory'
                /\ mainpc' = "b_check" /\ fullRender' = FALSE
                /\ numJobs' = numJobs
          /\ InitialView =>
                UNCHANGED <<mainpc, fullRender, viewVars, curMaxIterations,
                            isRecalculatingFractal, cancelRender, renderingTask,
                            renderMutex, pixelDataBuffer, renderProgress,
                            renderMaxProgress, textureVars, jobVars, overlayVars>>
          /\ UNCHANGED <<winWidth, winHeight, maxIterations, curFractalIdx,
                         curResolutionIdx>>]_vars

\* A reset from a zoomed or panned view was handled and the one job it
\* dispatched has been set up.
C25_Witness ==
    /\ lastIntent = "Reset"
    /\ intents = 2
    /\ InitialView
    /\ destroyTrajectory
    /\ numJobs = 3
    /\ mainpc = "idle"

\* C31: after every handler that changes the zoom or the window size the
\* stored plane values fit the view: the shorter window dimension spans
\* 4 / zoom, the other one at least as much, and fractalWidthRatio equals
\* fractalHeightRatio.
C31_PlaneConsistent ==
    LET w == callArgs[1]
        h == callArgs[2]
        plane == callResult[1]
        span == PlaneSpan(callArgs[3])
    IN  /\ w < h => plane.fractalWidth = span
        /\ w >= h => plane.fractalHeight = span
        /\ plane = refreshFractalSize(w, h, callArgs[3])
        /\ plane.fractalWidthRatio = plane.fractalHeightRatio

\* A right click is handled and draws an overlay.
RightClickDraws ==
    /\ phase = "events"
    /\ phase' = "events"
    /\ intents' = intents
    /\ rightClick'.drawn
    /\ trajectoryTexture' # -1
    /\ <<rightClick, trajectoryTexture>>' # <<rightClick, trajectoryTexture>>

\* C32: the overlay a right click creates stays displayed until a pan, zoom,
\* resize, reset or fractal switch is handled after the click: no
\* destroyTrajectory flag raised by an earlier handler is pending when the
\* overlay is created, the overlay is destroyed only by a pending flag, and a
\* composed frame holds the overlay that exists.
C32_OverlayOutlivesEarlierFlag ==
    /\ [][RightClickDraws => ~destroyTrajectory']_vars
    /\ [][(trajectoryTexture # -1 /\ trajectoryTexture' = -1) => destroyTrajectory]_vars
    /\ [](phase = "ui" => frameOverlay \in {-1, trajectoryTexture})

\* C33: isRecalculatingFractal is set only while a dispatched task is running:
\* once the dispatch has returned and no task runs, also after a failure to
\* create the texture, to allocate the pixel format or to lock the texture,
\* the flag is false again.
C33_FlagOnlyWhileRunning ==
    (mainpc = "idle" /\ ~JobInFlight) => ~isRecalculatingFractal

\* The slots of the job's render size.
JobSlots(j) == task[j].renderWidth * task[j].renderHeight

BufferFitsJob ==
    /\ \A j \in Jobs : \A i \in Threads :
          workers[j][i].pc = "write" =>
              workers[j][i].y * task[j].renderWidth + workers[j][i].x
                  < Len(pixelDataBuffer)
    /\ \A j \in Jobs :
          task[j].pc \notin {"none", "done"} => Len(pixelDataBuffer) = JobSlots(j)
    /\ \A j \in Jobs :
          task[j].pc = "copy" =>
              /\ fractalTextureBuffer = j
              /\ textures[j].state = "live"
              /\ Len(pixelDataBuffer) = JobSlots(j)

\* C34: every index a worker writes is below pixelDataBuffer.size(), the
\* buffer holds exactly renderWidth * renderHeight slots of the job in flight
\* and is never resized while workers run, and the copy into the texture has
\* the size of the texture created for the job, also when the window is
\* resized or the resolution changed during the job.
C34_BufferMatchesJob ==
    /\ []BufferFitsJob
    /\ [][Len(pixelDataBuffer') # Len(pixelDataBuffer) =>
             \A j \in Jobs : \A i \in Threads : workers[j][i].pc \notin Running]_vars
    /\ [][\A j \in Jobs : task'[j].pc = "swap" /\ task[j].pc = "copy" =>
             Len(textures'[j].data) = JobSlots(j)]_vars

\* C34 witness: the job dispatched by a resize or a change of resolution that
\* arrived while the workers of the previous job were running, with a render
\* size other than the previous job's, has written its last slot and copied
\* its buffer into its texture.
C34_Witness ==
    \E j \in Jobs :
        /\ j > 1
        /\ lastIntent \in {"Resize", "SelectResolution"}
        /\ cancelAt[j - 1] = "join"
        /\ JobSlots(j) # JobSlots(j - 1)
        /\ task[j].pc = "swap"
        /\ Len(textures[j].data) = JobSlots(j)

\* The texture pointers refer to textures that exist, to two different ones,
\* and SDL_DestroyTexture was never called on a destroyed texture.
TexturePointersValid ==
    /\ \A t \in DOMAIN textures : textures[t].state # "destroyedAgain"
    /\ fractalTexture # 0 =>
          /\ fractalTexture # fractalTextureBuffer
          /\ textures[fractalTexture].state = "live"
    /\ fractalTextureBuffer # 0 => textures[fractalTextureBuffer].state = "live"

\* A dispatch (lines 779-803) destroys the texture t.
DispatchDestroys(t) ==
    /\ mainpc = "b_setup"
    /\ textures[t].state = "live"
    /\ textures'[t].state # "live"

\* C35: the texture a dispatch destroys is neither the displayed texture nor
\* one a running job will copy into or swap; fractalTexture and
\* fractalTextureBuffer never refer to the same live texture; and no texture
\* is destroyed twice, by a dispatch or by the destructor.
C35_TextureLifetime ==
    /\ []TexturePointersValid
    /\ [][\A t \in Jobs : DispatchDestroys(t) =>
             /\ t = fractalTextureBuffer
             /\ t # fractalTexture
             /\ ~JobInFlight]_vars

\* Line 594: the interaction thread is in its loop and a right click would
\* compute an overlay.
ClickAccepted == mainpc = "idle" /\ ~isRecalculatingFractal

\* The displayed frame is the complete output of the last dispatched job, and
\* that job used the viewport, the fractal and the iteration budget that a
\* right click would use now.
FrameOfLiveParameters ==
    /\ fractalTexture # 0
    /\ displayedBy = numJobs
    /\ task[displayedBy].func = curFractalIdx
    /\ Len(FrameData) = JobSlots(displayedBy)
    /\ \A s \in 1..Len(FrameData) :
          /\ FrameData[s].job = displayedBy
          /\ FrameData[s].func = curFractalIdx
          /\ FrameData[s].view = LiveView

\* C36: an overlay is computed only when no job is in flight, and then with
\* the viewport, the active fractal and curMaxIterations of the job whose
\* output is displayed.
C36_OverlayMatchesFrame ==
    /\ ClickAccepted => (~JobInFlight /\ FrameOfLiveParameters)
    /\ rightClick.drawn => ~rightClick.inFlight

\* C36 witness: after a switch to another fractal the new job's frame is
\* displayed and a right click has drawn the overlay of the new fractal.
C36_Witness ==
    /\ lastIntent = "SelectFractalKey"
    /\ curFractalIdx # 0
    /\ displayedBy = numJobs
    /\ numJobs > 1
    /\ rightClick.drawn
    /\ trajectoryTexture = curFractalIdx

\* 10^pow10 * 2^pow2 >= 1, for pow2 >= -3.
ZoomAtLeastOne(view) ==
    /\ view.pow10 >= 0
    /\ view.pow2 >= 0 \/ (view.pow10 >= 1 /\ view.pow2 >= -3)

\* C37: after any sequence of wheel, Go, reset and resize operations
\* zoom >= 1 and numZooms >= 0, and zoom = 2^numZooms: a zoom that is the power
\* of two 2^k has numZooms = k (a wheel step up from zoom 1 adds one zoom step).
C37_ZoomAtLeastMinimum ==
    /\ ZoomAtLeastOne(callResult[1])
    /\ callResult[1].numZooms = Zero \/ callResult[1].numZooms.bits[1] = 1
    /\ callResult[1].pow10 = 0 =>
          callResult[1].numZooms = LongDoubleOf(callResult[1].pow2)

InsideRegion(v) == MinUnits <= v /\ v <= MaxUnits

\* The component v of a requested point, stored as offset: clamped to the region.
StoredClamped(v, offset) ==
    /\ v < MinUnits => offset = MinUnits
    /\ v > MaxUnits => offset = MaxUnits
    /\ InsideRegion(v) => offset = v

\* C38: after any sequence of left clicks, Go and reset operations the offset
\* is inside [-2.5, 2.5] on both axes; a requested point outside the region is
\* clamped component-wise, and after a left click at a point inside the region
\* that point is the plane point of the window centre.
C38_OffsetInsideRegion ==
    /\ InsideRegion(callResult[1].offsetX)
    /\ InsideRegion(callResult[1].offsetY)
    /\ callArgs[1].op \in {"click", "go"} =>
          /\ StoredClamped(callArgs[1].re, callResult[1].offsetX)
          /\ StoredClamped(callArgs[1].im, callResult[1].offsetY)
    /\ (/\ callArgs[1].op = "click"
        /\ InsideRegion(callArgs[1].re)
        /\ InsideRegion(callArgs[1].im)) =>
          screenToFractalUnits(PanWindow[1] \div 2, PanWindow[2] \div 2, callResult[1])
              = <<callArgs[1].re, callArgs[1].im>>

\* A left click whose real part is left of the region and whose imaginary
\* part is inside it, away from the old offset.
C38_Witness ==
    /\ callArgs[1].op = "click"
    /\ callArgs[1].re < MinUnits
    /\ callArgs[1].im # 0
    /\ callResult[1].offsetX = MinUnits
    /\ callResult[1].offsetY = callArgs[1].im
    /\ callResult[1].n = 1

\* C39: Go with the inputs (zoom power p >= 0, real, imaginary) leaves the
\* view at zoom 10^p and at the requested offsets, and dispatches a job
\* unless the view already had those values; the inputs (1, 0, 0) give the
\* zoom 10^1.
C39_GoLeavesRequestedView ==
    (callArgs[4].op = "go" /\ callArgs[4].p >= 0) =>
        /\ callResult[1].pow10 = callArgs[4].p
        /\ callResult[1].pow2 = 0
        /\ callArgs[4].atOrigin = callArgs[4].origin
        /\ ~callArgs[4].hadValues => callArgs[4].dispatched

\* C40: the job's start is defined for every value the hardware-parallelism
\* query can return, 0 included: the section width is never computed by a
\* division by zero, and at least one worker is created, so that every
\* column of the job is computed.
C40_DispatchDefined ==
    callResult # <<>> =>
        /\ callResult[1].numThreads # 0
        /\ callResult[1].pc # "trapped"
        /\ callResult[1].pc \in {"created", "joined"} =>
              /\ Len(callResult[1].threads) >= 1
              /\ \A x \in 0..(callArgs[1] - 1) :
                    \E k \in 1..Len(callResult[1].threads) :
                       /\ callResult[1].threads[k].startX <= x
                       /\ x < callResult[1].threads[k].endX

====
